---- MODULE Spec2Model ----
(***************************************************************************)
(* A model of entwine's chunk layer: the cold chunk life cycle             *)
(* (Chunk::create, populate, collect, the destructors and the global chunk *)
(* counter of src/entwine/tree/chunk.cpp), the payload format              *)
(* (Format::pack of src/entwine/types/format.cpp) and the base chunk's     *)
(* save and load.                                                          *)
(*                                                                         *)
(* Bytes are modelled in 4-byte words: a point record is the sequence of   *)
(* the words of its dimensions in schema order, a double being the pair    *)
(* <<low word, high word>>.  The coordinates of the model are small whole  *)
(* numbers, whose low word is 0; the high word is abstracted by the value  *)
(* it encodes.                                                             *)
(***************************************************************************)
EXTENDS Integers, Sequences, FiniteSets, TLC

VARIABLES
    ndebug,       \* the build: TRUE when assert() is compiled out (NDEBUG)
    meta,         \* the Metadata the builder holds (format, cesium, subset)
    chunks,       \* the live cold chunk objects, by id (NoChunk: none)
    base,         \* the live BaseChunk object, or NoChunk
    chunkCount,   \* the global std::atomic_size_t chunkCount
    constructed,  \* chunk objects constructed so far
    puts,         \* the Storage::ensurePut calls of the latest operation
    crashed,      \* the process was aborted (a failed assert, a crash)
    ld,           \* the pack-and-reload of one cold chunk
    bs,           \* the save-and-load of one BaseChunk
    mg,           \* the merge of subset BaseChunks into one
    fm,           \* one Format: its construction and a pack
    md,           \* one Metadata: its toJson, save and makeWhole
    kn,           \* one run of the entwine executable: main and its kernel
    th            \* the threads that construct and destroy chunks

lifeVars == <<ndebug, meta, chunks, base, chunkCount, constructed, puts, crashed>>

vars == <<lifeVars, ld, bs, mg, fm, md, kn, th>>

-----------------------------------------------------------------------------
(* Bounds of the model.                                                    *)

MaxConstructed == 3     \* chunk objects constructed in one behaviour
MaxCellRecs == 2        \* point records held by one cold chunk
MaxTiles == 2           \* tile() invocations on one chunk object
MaxBaseRecs == 3        \* point records inserted into the BaseChunk
MaxTampered == 2        \* records of a base blob that come back altered
MaxMerges == 3          \* BaseChunk::merge calls on one BaseChunk
MaxTailLen == 2         \* tail fields a Format is constructed with
MaxTransLen == 2        \* values held by one Transformation
MaxErrors == 2          \* entries of the error list of one Metadata
MaxArgs == 3            \* arguments given to the build kernel
MaxLinkArgs == 6        \* arguments of the link kernel, in every mix
MaxLinkSubs == 17       \* subset paths given to the link kernel
MaxThreads == 2         \* threads that construct and destroy chunks
MaxThreadObjects == 4   \* chunk objects the threads construct
SizeBits == 16          \* bits of the chunk counter as it is modelled

-----------------------------------------------------------------------------
(* Structure, ChunkInfo and Climber.                                       *)

\* The tree geometry the model runs under: a quadtree whose base spans the
\* depths [1, 3) (ids 1 .. 20), whose cold chunks start at depth 3 (id 21)
\* and hold 4 cells each, and whose chunk ids from 29 on are sparse.
Structure ==
    [ factor |-> 4,
      baseDepthBegin |-> 1,
      baseDepthEnd |-> 3,
      coldDepthBegin |-> 3,
      basePointsPerChunk |-> 4,
      mappedIndexBegin |-> 29,
      baseIndexBegin |-> 1 ]

\* Coordinates have GridBits bits: 0 .. 2^GridBits - 1 on every axis.
GridBits == Structure.coldDepthBegin

RECURSIVE Pow(_, _)
Pow(b, e) == IF e = 0 THEN 1 ELSE b * Pow(b, e - 1)

Coord == 0 .. (Pow(2, GridBits) - 1)

\* ChunkInfo::calcLevelIndex(2, d): the first id of depth d.
CalcLevelIndex(d) == (Pow(4, d) - 1) \div 3

\* ChunkInfo::pointsAtDepth(2, d).
PointsAtDepth(d) == Pow(4, d)

\* ChunkInfo::calcDepth(factor, index): the depth whose id range holds index.
RECURSIVE CalcDepthFrom(_, _, _)
CalcDepthFrom(factor, index, d) ==
    IF index < (Pow(factor, d + 1) - 1) \div (factor - 1)
    THEN d
    ELSE CalcDepthFrom(factor, index, d + 1)

CalcDepth(factor, index) == CalcDepthFrom(factor, index, 0)

\* The octant bits of p along the first d steps of a descent, interleaved.
RECURSIVE ZOrder(_, _)
ZOrder(p, d) ==
    IF d = 0 THEN 0
    ELSE LET shift == Pow(2, GridBits - d)
             xb == (p.x \div shift) % 2
             yb == (p.y \div shift) % 2
         IN  4 * ZOrder(p, d - 1) + 2 * yb + xb

\* Climber::reset(); Climber::magnifyTo(p, d); Climber::index().
ClimbIndex(p, d) == CalcLevelIndex(d) + ZOrder(p, d)

\* The tick of p at depth d: the top d bits of its z.
ClimbTick(p, d) == p.z \div Pow(2, GridBits - d)

-----------------------------------------------------------------------------
(* Schema and point records.                                               *)

\* The native schema: X, Y, Z as doubles, then one 4-byte attribute.
NativeSchema ==
    << [name |-> "X", words |-> 2],
       [name |-> "Y", words |-> 2],
       [name |-> "Z", words |-> 2],
       [name |-> "Intensity", words |-> 1] >>

RECURSIVE SumWords(_)
SumWords(dims) ==
    IF dims = <<>> THEN 0 ELSE Head(dims).words + SumWords(Tail(dims))

\* Schema::pointSize(), in words.
PointSize(schema) == SumWords(schema)

\* The two words of a double holding the whole number v.
DoubleWords(v) == <<0, v>>

\* The record of a point (x, y, z) with attribute a, laid out by NativeSchema.
Rec(x, y, z, a) == DoubleWords(x) \o DoubleWords(y) \o DoubleWords(z) \o <<a>>

\* Cell::point() of a cell set from a record: X, Y and Z read as doubles.
PointOf(rec) == [x |-> rec[2], y |-> rec[4], z |-> rec[6]]

-----------------------------------------------------------------------------
(* Format: the tail and Format::pack.                                      *)

NoDelta == [scale |-> 0, offset |-> 0]

TailFieldNames == {"numPoints", "chunkType"}

ChunkTypes == {"Contiguous", "Sparse", "Invalid"}

\* The chunkType byte: Contiguous = 0, Sparse = 1, Invalid = 255.
ChunkTypeByte(type) ==
    CASE type = "Contiguous" -> 0
      [] type = "Sparse" -> 1
      [] OTHER -> 255

FormatAcceptedWithoutDuplicates(compress, tail) ==
    \A i \in 1 .. Len(tail) :
        Cardinality({j \in 1 .. Len(tail) : tail[j] = tail[i]}) <= 1

\* Format::Format accepts a configuration: no tail field is repeated, and
\* compression needs numPoints in the tail.
FormatAccepted(compress, tail) ==
    /\ \A i \in 1 .. Len(tail) :
          Cardinality({j \in 1 .. Len(tail) : tail[j] = tail[i]}) <= 1
    /\ ~(compress /\ ~(\E i \in 1 .. Len(tail) : tail[i] = "numPoints"))

\* One tail field: numPoints as an unsigned 64-bit count (two words),
\* chunkType as its byte.
TailField(name, numPoints, type) ==
    IF name = "numPoints" THEN <<numPoints, 0>> ELSE <<ChunkTypeByte(type)>>

\* Packer::buildTail(): the fields in the configured order.
RECURSIVE BuildTail(_, _, _)
BuildTail(fields, numPoints, type) ==
    IF fields = <<>> THEN <<>>
    ELSE TailField(Head(fields), numPoints, type)
            \o BuildTail(Tail(fields), numPoints, type)

\* The compressor is an external, lossless collaborator: its stream is the
\* words pushed into it behind a stream marker.
LzMark == -1

Compress(ws) == <<LzMark>> \o ws

FlattenReversed(recs) ==
    LET f[n \in 0 .. Len(recs)] == IF n = 0 THEN <<>> ELSE recs[n] \o f[n - 1]
    IN  f[Len(recs)]

RECURSIVE Flatten(_)
Flatten(recs) == IF recs = <<>> THEN <<>> ELSE Head(recs) \o Flatten(Tail(recs))

\* The schema Format::pack compresses under when a delta is configured:
\* X, Y, Z as Signed32, then the native dimensions other than X, Y, Z.
RECURSIVE NonXyz(_)
NonXyz(dims) ==
    IF dims = <<>> THEN <<>>
    ELSE IF Head(dims).name \in {"X", "Y", "Z"}
         THEN NonXyz(Tail(dims))
         ELSE <<Head(dims)>> \o NonXyz(Tail(dims))

PackingSchema(schema) ==
    << [name |-> "X", words |-> 1],
       [name |-> "Y", words |-> 1],
       [name |-> "Z", words |-> 1] >> \o NonXyz(schema)

\* The word offset of dimension name in a layout.
RECURSIVE DimOffset(_, _)
DimOffset(dims, name) ==
    IF Head(dims).name = name THEN 0
    ELSE Head(dims).words + DimOffset(Tail(dims), name)

DimWords(dims, name) ==
    LET i == CHOOSE i \in 1 .. Len(dims) : dims[i].name = name
    IN  dims[i].words

\* PointRef::getFieldAs<double>(dim) on a BinaryPointTable of layout `dims`
\* set to the record at pos: the field is read where, and as wide as, the
\* table's layout places it.
GetFieldAs(rec, dims, name) ==
    rec[DimOffset(dims, name) + DimWords(dims, name)]

\* std::llround(n / d): to the nearest whole number, halves away from zero.
LLRound(n, d) ==
    IF n >= 0 THEN (2 * n + d) \div (2 * d) ELSE 0 - ((2 * (0 - n) + d) \div (2 * d))

\* What pack pushes into the compressor for one record under a delta: the
\* three quantized integers, then the bytes from 3 * sizeof(double) on.
DeltaPush(fmt, rec) ==
    LET dims == PackingSchema(fmt.schema)
        q(name) == LLRound(GetFieldAs(rec, dims, name) - fmt.delta.offset,
                           fmt.delta.scale)
    IN  <<q("X"), q("Y"), q("Z")>> \o SubSeq(rec, 7, PointSize(fmt.schema))

RECURSIVE DeltaPushAll(_, _)
DeltaPushAll(fmt, recs) ==
    IF recs = <<>> THEN <<>>
    ELSE DeltaPush(fmt, Head(recs)) \o DeltaPushAll(fmt, Tail(recs))

PackNeverCompresses(fmt, dataStack, type) ==
    Flatten(dataStack) \o BuildTail(fmt.tail, Len(dataStack), type)

\* Format::pack(dataStack, chunkType).
Pack(fmt, dataStack, type) ==
    LET numPoints == Len(dataStack)
        data == IF fmt.compress
                THEN IF fmt.delta = NoDelta
                     THEN Compress(Flatten(dataStack))
                     ELSE Compress(DeltaPushAll(fmt, dataStack))
                ELSE Flatten(dataStack)
    IN  data \o BuildTail(fmt.tail, numPoints, type)

\* A postfix that is applied to the cold data chunks as well.
PostfixForAll(m, isColdChunk) ==
    m.subset

\* Metadata::postfix(isColdChunk).
Postfix(m, isColdChunk) ==
    IF m.subset # 0 /\ ~isColdChunk THEN m.subset ELSE 0

-----------------------------------------------------------------------------
(* Cold chunks: tubes, cells and the chunk object.                         *)

NoChunk == [variant |-> "None"]

NoData == [set |-> FALSE, bytes |-> <<>>]

\* No cell in any tube.
EmptyCells == [k \in {} |-> <<>>]

TickSpan == Pow(2, GridBits)

\* The place of a point in a chunk: its tube (climber.index() - id) and its
\* tick in that tube, as one ordered key.
CellKey(ch, p) ==
    (ClimbIndex(p, ch.depth) - ch.id) * TickSpan + ClimbTick(p, ch.depth)

\* The point lies in the id range of the chunk.
InChunk(ch, p) ==
    /\ ClimbIndex(p, ch.depth) >= ch.id
    /\ ClimbIndex(p, ch.depth) < ch.id + ch.maxPoints

\* insert(climber, cell) with the climber magnified to the cell's point: an
\* empty tick takes the cell, a cell of the same point takes the record into
\* its data list.
InsertCell(ch, rec) ==
    LET k == CellKey(ch, PointOf(rec))
    IN  [j \in DOMAIN ch.cells \cup {k} |->
            IF j = k
            THEN IF k \in DOMAIN ch.cells THEN <<rec>> \o ch.cells[k] ELSE <<rec>>
            ELSE ch.cells[j]]

\* The keys of a tube storage in iteration order.
RECURSIVE KeysInOrder(_)
KeysInOrder(ks) ==
    IF ks = {} THEN <<>>
    ELSE LET m == CHOOSE m \in ks : \A o \in ks : m <= o
         IN  <<m>> \o KeysInOrder(ks \ {m})

RECURSIVE DataOf(_, _)
DataOf(cells, keys) ==
    IF keys = <<>> THEN <<>>
    ELSE cells[Head(keys)] \o DataOf(cells, Tail(keys))

\* acquire() and the loop of collect over the cell stack: the data records of
\* every cell, tube by tube.
DataStackOf(cells) == DataOf(cells, KeysInOrder(DOMAIN cells))

NumRecs(cells) == Len(DataStackOf(cells))

\* The chunk object a constructor leaves.
NewChunk(variant, depth, id, maxPoints, autosave) ==
    [ variant |-> variant, depth |-> depth, id |-> id, maxPoints |-> maxPoints,
      autosave |-> autosave, cells |-> EmptyCells, husks |-> FALSE,
      data |-> NoData, tiles |-> 0 ]

\* Chunk::create without data: the variant chosen for (depth, id).
CreateVariant(depth, id) ==
    IF id < Structure.mappedIndexBegin
    THEN IF depth # 0 THEN "Contiguous" ELSE "Base"
    ELSE "Sparse"

\* Every destructor passing Contiguous to collect.
OwnTypeContiguous(ch) ==
    "Contiguous"

\* The chunk type a destructor passes to collect.
OwnType(ch) == IF ch.variant = "Sparse" THEN "Sparse" ELSE "Contiguous"

\* A collect that packs the cells but leaves them in the tubes.
CollectFreshKeepsCells(m, ch, type) ==
    [ch EXCEPT !.tiles = IF m.cesium THEN @ + 1 ELSE @,
               !.data = [set |-> TRUE,
                         bytes |-> Pack(m.format, DataStackOf(ch.cells), type)]]

\* Chunk::collect(type) on a chunk whose m_data is unset: tile() when cesium
\* is configured, every cell drained, m_data packed.
CollectFresh(m, ch, type) ==
    [ch EXCEPT !.tiles = IF m.cesium THEN @ + 1 ELSE @,
               !.cells = EmptyCells,
               !.husks = (ch.cells # EmptyCells),
               !.data = [set |-> TRUE,
                         bytes |-> Pack(m.format, DataStackOf(ch.cells), type)]]

\* Chunk::collect(type) on a chunk whose m_data is already set, with assert
\* compiled out: the tubes hold no cell any more, so the payload of an empty
\* stack replaces m_data.  (acquire() then pushes the moved-from nodes the
\* first collect left in the tubes, which is undefined: see CollectOutcomes.)
CollectAgain(m, ch, type) ==
    [ch EXCEPT !.tiles = IF m.cesium THEN @ + 1 ELSE @,
               !.data = [set |-> TRUE, bytes |-> Pack(m.format, <<>>, type)]]

\* The outcomes of Chunk::collect(type): ok is FALSE when the process is
\* aborted, by assert(!m_data) or, with assert compiled out, by the push of
\* a moved-from cell node (undefined behaviour: it may also go unnoticed).
CollectOutcomes(dbgOff, m, ch, type) ==
    IF ~ch.data.set
    THEN {[ok |-> TRUE, chunk |-> CollectFresh(m, ch, type)]}
    ELSE IF ~dbgOff
         THEN {[ok |-> FALSE, chunk |-> ch]}
         ELSE {[ok |-> TRUE, chunk |-> CollectAgain(m, ch, type)]}
                \cup (IF ch.husks THEN {[ok |-> FALSE, chunk |-> ch]} ELSE {})

\* A count-down without the test for zero.
DecCountUnguarded(n) == n - 1

\* `if (chunkCount) --chunkCount;` of Chunk::~Chunk.
DecCount(n) == IF n # 0 THEN n - 1 ELSE n

RECURSIVE DecCountTimes(_, _)
DecCountTimes(n, k) == IF k = 0 THEN n ELSE DecCountTimes(DecCount(n), k - 1)

\* The put of Chunk::~Chunk: m_data at maybePrefix(id) + postfix(true).
DtorPuts(m, ch) ==
    IF ch.data.set
    THEN << [id |-> ch.id, postfix |-> Postfix(m, TRUE), bytes |-> ch.data.bytes] >>
    ELSE <<>>

\* ~SparseChunk collects always, ~ContiguousChunk when autosave is on.
DtorCollects(ch) == ch.variant = "Sparse" \/ ch.autosave

-----------------------------------------------------------------------------
(* Unpacker: the tail read back and the cells rehydrated.                  *)

\* The chunk type a tail byte stands for.
ChunkTypeOfByte(b) ==
    CASE b = 0 -> "Contiguous"
      [] b = 1 -> "Sparse"
      [] OTHER -> "Invalid"

\* The tail read from the end of the blob, the fields in reverse declared
\* order: the blob must hold every field.
RECURSIVE ParseTail(_, _)
ParseTail(fields, u) ==
    IF fields = <<>> \/ ~u.ok THEN u
    ELSE LET f == fields[Len(fields)]
             n == Len(u.data)
             front == SubSeq(fields, 1, Len(fields) - 1)
         IN  IF f = "chunkType"
             THEN IF n < 1 THEN [u EXCEPT !.ok = FALSE]
                  ELSE ParseTail(front,
                          [u EXCEPT !.typeByte = u.data[n],
                                    !.data = SubSeq(u.data, 1, n - 1)])
             ELSE IF n < 2 THEN [u EXCEPT !.ok = FALSE]
                  ELSE ParseTail(front,
                          [u EXCEPT !.numPoints = u.data[n - 1],
                                    !.data = SubSeq(u.data, 1, n - 2)])

\* Format::unpack(data).
Unpack(fmt, blob) ==
    ParseTail(fmt.tail, [ok |-> TRUE, data |-> blob, numPoints |-> 0, typeByte |-> 255])

Decompress(stream) == Tail(stream)

Compressed(stream) == stream # <<>> /\ Head(stream) = LzMark

\* A word stream cut into records of `size` words.
RECURSIVE Split(_, _)
Split(ws, size) ==
    IF Len(ws) < size THEN <<>>
    ELSE <<SubSeq(ws, 1, size)>> \o Split(SubSeq(ws, size + 1, Len(ws)), size)

\* A record of the packing schema back in the native one:
\* native = integer * scale + offset.
Dequantize(fmt, prec) ==
    LET v(i) == prec[i] * fmt.delta.scale + fmt.delta.offset
    IN  DoubleWords(v(1)) \o DoubleWords(v(2)) \o DoubleWords(v(3))
            \o SubSeq(prec, 4, Len(prec))

RECURSIVE DequantizeAll(_, _)
DequantizeAll(fmt, precs) ==
    IF precs = <<>> THEN <<>>
    ELSE <<Dequantize(fmt, Head(precs))>> \o DequantizeAll(fmt, Tail(precs))

\* Unpacker::acquireCells(pool): the point records of the payload, or a
\* refusal when the payload does not hold numPoints records.
AcquireCells(fmt, u) ==
    LET size == IF fmt.compress /\ fmt.delta # NoDelta
                THEN PointSize(PackingSchema(fmt.schema))
                ELSE PointSize(fmt.schema)
        wellFormed == IF fmt.compress THEN Compressed(u.data) ELSE TRUE
        ws == IF fmt.compress /\ wellFormed THEN Decompress(u.data) ELSE u.data
        recs == Split(ws, size)
    IN  IF ~wellFormed \/ Len(ws) # u.numPoints * size
        THEN [ok |-> FALSE, recs |-> <<>>]
        ELSE [ok |-> TRUE,
              recs |-> IF fmt.compress /\ fmt.delta # NoDelta
                       THEN DequantizeAll(fmt, recs)
                       ELSE recs]

\* Chunk::populate(cells).
RECURSIVE Populate(_, _)
Populate(ch, recs) ==
    IF recs = <<>> THEN ch
    ELSE Populate([ch EXCEPT !.cells = InsertCell(ch, Head(recs))], Tail(recs))

-----------------------------------------------------------------------------
(* The BaseChunk: its per-depth chunks, save and load.                     *)

NoBase == [variant |-> "None"]

BaseDepths == Structure.baseDepthBegin .. (Structure.baseDepthEnd - 1)

\* m_id of the BaseChunk.
BaseId == Structure.baseIndexBegin

\* The per-depth ContiguousChunk of a whole (subset-less) BaseChunk.
BaseInner(d) ==
    IF d < Structure.baseDepthBegin
    THEN NewChunk("Contiguous", d, CalcLevelIndex(d), 0, FALSE)
    ELSE NewChunk("Contiguous", d, CalcLevelIndex(d), PointsAtDepth(d), FALSE)

\* BaseChunk::BaseChunk(builder): m_chunks holds one chunk per depth below
\* baseDepthEnd, m_writes is empty.
NewBase ==
    [ variant |-> "Base", data |-> NoData,
      chunks |-> [d \in 0 .. (Structure.baseDepthEnd - 1) |-> BaseInner(d)],
      writable |-> FALSE ]

\* The puts of the destruction of a BaseChunk: Chunk::~Chunk of each of its
\* per-depth chunks (autosave off: no collect) and of the base itself.
BaseDtorPuts(m, b) ==
    LET inner[d \in -1 .. (Structure.baseDepthEnd - 1)] ==
            IF d < 0 THEN <<>> ELSE inner[d - 1] \o DtorPuts(m, b.chunks[d])
    IN  inner[Structure.baseDepthEnd - 1] \o DtorPuts(m, b)

\* The subsets a build is split into (of = 4): subset s covers the s-th
\* quarter of the ids of every base depth.
SubsetOf == Structure.factor

\* Subset::calcSpans(structure, bounds)[d]: the ids [begin, end) of depth d
\* that subset s builds.
SubsetSpan(s, d) ==
    LET width == PointsAtDepth(d) \div SubsetOf
        begin == CalcLevelIndex(d) + (s - 1) * width
    IN  [begin |-> begin, end |-> begin + width]

\* The per-depth ContiguousChunk of the BaseChunk of subset s (0: no subset).
BaseInnerOf(s, d) ==
    IF s = 0 \/ d < Structure.baseDepthBegin THEN BaseInner(d)
    ELSE NewChunk("Contiguous", d, SubsetSpan(s, d).begin,
                  SubsetSpan(s, d).end - SubsetSpan(s, d).begin, FALSE)

\* BaseChunk::BaseChunk(builder) under a metadata of subset s.
BaseOf(s) ==
    [NewBase EXCEPT
        !.chunks = [d \in 0 .. (Structure.baseDepthEnd - 1) |-> BaseInnerOf(s, d)]]

EndIdIsId(ch) == ch.id

\* ContiguousChunk::endId().
EndId(ch) == ch.id + ch.maxPoints

\* BaseChunk::makeCelled(schema): TubeId (8 bytes) before the native dimensions.
MakeCelled(schema) == <<[name |-> "TubeId", words |-> 2]>> \o schema

\* insert(climber, cell) into the base: the cell goes to the chunk of the
\* climber's depth; a tick held by a cell of another point sends the
\* incoming cell one depth down, and past baseDepthEnd out of the base.
RECURSIVE PlaceFrom(_, _, _)
PlaceFrom(chs, rec, d) ==
    IF d >= Structure.baseDepthEnd THEN chs
    ELSE LET ch == chs[d]
             k == CellKey(ch, PointOf(rec))
         IN  IF k \notin DOMAIN ch.cells \/ PointOf(Head(ch.cells[k])) = PointOf(rec)
             THEN [chs EXCEPT ![d].cells = InsertCell(ch, rec)]
             ELSE PlaceFrom(chs, rec, d + 1)

CelledOfTubeIndexOnly(ch, keys) ==
    LET rows[n \in 0 .. Len(keys)] ==
            IF n = 0 THEN <<>>
            ELSE rows[n - 1] \o
                 [i \in 1 .. Len(ch.cells[keys[n]]) |->
                     <<keys[n] \div TickSpan, 0>> \o ch.cells[keys[n]][i]]
    IN  rows[Len(keys)]

\* The celled records save emits for one chunk: per tube, per cell, per data
\* record, tubeId = chunk.id + tubeIndex - baseId before the record.
RECURSIVE CelledOf(_, _)
CelledOf(ch, keys) ==
    IF keys = <<>> THEN <<>>
    ELSE LET k == Head(keys)
             tubeId == ch.id + (k \div TickSpan) - BaseId
             one[i \in 0 .. Len(ch.cells[k])] ==
                 IF i = 0 THEN <<>>
                 ELSE one[i - 1] \o <<(<<tubeId, 0>> \o ch.cells[k][i])>>
         IN  one[Len(ch.cells[k])] \o CelledOf(ch, Tail(keys))

CelledRecords(ch) == CelledOf(ch, KeysInOrder(DOMAIN ch.cells))

RECURSIVE CelledOfDepths(_, _)
CelledOfDepths(chs, d) ==
    IF d >= Structure.baseDepthEnd THEN <<>>
    ELSE CelledRecords(chs[d]) \o CelledOfDepths(chs, d + 1)

RECURSIVE NumRecsOfDepths(_, _)
NumRecsOfDepths(chs, d) ==
    IF d >= Structure.baseDepthEnd THEN 0
    ELSE NumRecs(chs[d].cells) + NumRecsOfDepths(chs, d + 1)

BaseSaveBlobCountsCells(fmt, b) ==
    LET celled == Flatten(CelledOfDepths(b.chunks, Structure.baseDepthBegin))
        data == IF fmt.compress THEN Compress(celled) ELSE celled
        numCells[d \in (Structure.baseDepthBegin - 1) .. (Structure.baseDepthEnd - 1)] ==
            IF d < Structure.baseDepthBegin THEN 0
            ELSE numCells[d - 1] + Cardinality(DOMAIN b.chunks[d].cells)
    IN  data \o BuildTail(fmt.tail, numCells[Structure.baseDepthEnd - 1], "Contiguous")

\* The blob BaseChunk::save puts: the celled records of every write buffer,
\* compressed under the celled schema when compression is on, and the tail
\* with the size of the data stack and the chunk type Contiguous.
BaseSaveBlob(fmt, b) ==
    LET celled == Flatten(CelledOfDepths(b.chunks, Structure.baseDepthBegin))
        numPoints == NumRecsOfDepths(b.chunks, Structure.baseDepthBegin)
        data == IF fmt.compress THEN Compress(celled) ELSE celled
    IN  data \o BuildTail(fmt.tail, numPoints, "Contiguous")

BaseAfterSaveKeepsData(m, b) ==
    [b EXCEPT !.writable = TRUE,
              !.data = [set |-> TRUE, bytes |-> BuildTail(m.format.tail, 0, "Contiguous")]]

\* The BaseChunk after save: every base depth was tiled when cesium output
\* is configured, m_writes was filled, and the cells were moved out of the
\* tubes.
BaseAfterSave(m, b) ==
    [b EXCEPT !.writable = TRUE,
              !.chunks = [d \in DOMAIN b.chunks |->
                 IF d \in BaseDepths
                 THEN [b.chunks[d] EXCEPT
                          !.tiles = IF m.cesium THEN @ + 1 ELSE @,
                          !.husks = b.chunks[d].cells # EmptyCells,
                          !.cells = EmptyCells]
                 ELSE b.chunks[d]]]

BadTubeNever(tube, rec) == FALSE

\* The tube a celled record carries is not the one its point climbs to at
\* the depth of that tube.
BadTube(tube, rec) ==
    tube # ClimbIndex(PointOf(rec), CalcDepth(Structure.factor, BaseId + tube)) - BaseId

\* The loop of BaseChunk::BaseChunk(builder, unpacker) from record i on:
\* a record whose TubeId is not climber.index() - m_id throws there.
RECURSIVE LoadLoop(_, _, _)
LoadLoop(st, recs, i) ==
    IF i > Len(recs) THEN st
    ELSE LET tube == recs[i][1]
             rec == SubSeq(recs[i], 3, Len(recs[i]))
             curDepth == CalcDepth(Structure.factor, BaseId + tube)
         IN  IF BadTube(tube, rec)
             THEN [st EXCEPT !.err = i]
             ELSE LoadLoop(
                    [st EXCEPT !.chunks = PlaceFrom(st.chunks, rec, curDepth),
                               !.inserted = Append(st.inserted, <<curDepth, tube, rec>>)],
                    recs, i + 1)

\* BaseChunk::BaseChunk(builder, unpacker).  err is 0, or the index of the
\* record that raised "Bad serialized base tube".
BaseLoad(m, u) ==
    LET fmt == m.format
        ws == IF fmt.compress THEN Decompress(u.data) ELSE u.data
        recs == SubSeq(Split(ws, PointSize(MakeCelled(fmt.schema))), 1, u.numPoints)
    IN  LoadLoop([err |-> 0, inserted |-> <<>>, chunks |-> BaseOf(m.subset).chunks],
                 recs, 1)

\* Chunk::create(builder, bounds, depth, id, maxPoints, data).
CreateFromData(m, depth, id, maxPoints, blob) ==
    LET fmt == m.format
        u == Unpack(fmt, blob)
        type == ChunkTypeOfByte(u.typeByte)
        cells == AcquireCells(fmt, u)
        made(variant) ==
            IF cells.ok
            THEN [status |-> "chunk",
                  chunk |-> Populate(NewChunk(variant, depth, id, maxPoints, TRUE),
                                     cells.recs)]
            ELSE [status |-> "error", chunk |-> NoChunk]
    IN  IF ~u.ok THEN [status |-> "error", chunk |-> NoChunk]
        ELSE IF depth # 0
             THEN IF type = "Contiguous" THEN made("Contiguous")
                  ELSE IF type = "Sparse" THEN made("Sparse")
                  ELSE [status |-> "null", chunk |-> NoChunk]
             ELSE LET l == BaseLoad(m, u)
                  IN  IF l.err = 0
                      THEN [status |-> "chunk",
                            chunk |-> [BaseOf(m.subset) EXCEPT !.chunks = l.chunks]]
                      ELSE [status |-> "error", chunk |-> NoChunk]

-----------------------------------------------------------------------------
(* The life cycle of chunk objects.                                        *)

\* The ids of the cold chunks of the model: the first cold chunk, which is
\* contiguous, and the first sparse one.
ColdIds == {CalcLevelIndex(Structure.coldDepthBegin), Structure.mappedIndexBegin}

\* The point records inserted in the life cycle: two at one point, and one
\* more per chunk.
LifeRecords ==
    {Rec(0, 0, 0, 1), Rec(0, 0, 0, 2), Rec(1, 1, 3, 1), Rec(0, 2, 0, 1), Rec(1, 3, 2, 2)}

Fmt(compress, delta, tail) ==
    [schema |-> NativeSchema, compress |-> compress, delta |-> delta, tail |-> tail]

\* The metadata configurations of the life cycle.
LifeMetas ==
    { [format |-> Fmt(FALSE, NoDelta, <<"numPoints", "chunkType">>),
       cesium |-> FALSE, subset |-> 0],
      [format |-> Fmt(FALSE, NoDelta, <<>>),
       cesium |-> FALSE, subset |-> 1],
      [format |-> Fmt(TRUE, NoDelta, <<"chunkType", "numPoints">>),
       cesium |-> TRUE, subset |-> 0],
      [format |-> Fmt(TRUE, [scale |-> 2, offset |-> 1], <<"numPoints", "chunkType">>),
       cesium |-> FALSE, subset |-> 2] }

\* The ContiguousChunk objects a BaseChunk owns: one per depth below
\* baseDepthEnd in m_chunks, and one per base depth in m_writes once
\* makeWritable has run.
BaseInnerChunks(b) ==
    Cardinality(DOMAIN b.chunks)
        + (IF b.writable THEN Cardinality(BaseDepths) ELSE 0)

NoResult == [status |-> "none", chunk |-> NoChunk]

\* No chunk is being round-tripped.
LdIdle ==
    [ pc |-> "start", depth |-> 0, id |-> 0, made |-> "None", chunk |-> NoChunk,
      orig |-> EmptyCells, blob |-> <<>>, tampered |-> FALSE, result |-> NoResult ]

NoLoad == [err |-> 0, inserted |-> <<>>, chunks |-> NewBase.chunks]

\* No BaseChunk is being saved and loaded.
BsIdle ==
    [ pc |-> "live", obj |-> NewBase, kept |-> NewBase.chunks, blob |-> <<>>,
      tampered |-> {}, result |-> NoLoad, created |-> "none" ]

\* No BaseChunk is being merged.
MgIdle ==
    [ pc |-> "start", bump |-> 0, self |-> 0, writable |-> FALSE,
      chunks |-> NewBase.chunks,
      writes |-> [d \in BaseDepths |-> <<>>],
      merged |-> <<>>, other |-> NoBase, err |-> "none", ids |-> {} ]

\* No Format is being constructed.
FmIdle ==
    [ pc |-> "start", compress |-> FALSE, delta |-> NoDelta, tail |-> <<>>,
      stack |-> <<>>, type |-> "Contiguous", packed |-> <<>>, left |-> <<>>,
      schema |-> NativeSchema ]

\* No run of the executable.
KnIdle ==
    [ pc |-> "idle", argv |-> <<>>, args |-> <<>>, a |-> 0,
      scale |-> <<>>, subset |-> [id |-> 0, of |-> 0], assigned |-> {},
      subs |-> 0, kernel |-> "none", builder |-> FALSE,
      outcome |-> "running", exit |-> -1 ]

\* No thread works on a chunk.
ThIdle == [ pc |-> <<>>, live |-> 0 ]

\* m_transformation is null.
NoTransformation == [set |-> FALSE, values |-> <<>>]

\* A Json::Value nothing was written to.
NoJson == [keys |-> {}, subset |-> 0, transformation |-> <<>>, errors |-> <<>>]

\* No Metadata is being written.
MdIdle ==
    [ pc |-> "start", subset |-> 0, reprojection |-> FALSE, delta |-> FALSE,
      transformation |-> NoTransformation, cesium |-> FALSE, errors |-> <<>>,
      manifest |-> FALSE, bumped |-> FALSE, whole |-> FALSE,
      json |-> NoJson, saved |-> <<>> ]

Init ==
    /\ ndebug \in BOOLEAN
    /\ meta \in LifeMetas
    /\ chunks = [i \in ColdIds |-> NoChunk]
    /\ base = NoBase
    /\ chunkCount = 0
    /\ constructed = 0
    /\ puts = <<>>
    /\ crashed = FALSE
    /\ ld = LdIdle
    /\ bs = BsIdle
    /\ mg = MgIdle
    /\ fm = FmIdle
    /\ md = MdIdle
    /\ kn = KnIdle
    /\ th = ThIdle

\* Chunk::create(builder, bounds, depth, id, maxPoints) for a cold chunk.
Create(id) ==
    /\ ~crashed
    /\ chunks[id] = NoChunk
    /\ constructed < MaxConstructed
    /\ chunks' = [chunks EXCEPT ![id] =
            NewChunk(CreateVariant(Structure.coldDepthBegin, id),
                     Structure.coldDepthBegin, id,
                     Structure.basePointsPerChunk, TRUE)]
    /\ chunkCount' = chunkCount + 1
    /\ constructed' = constructed + 1
    /\ puts' = <<>>
    /\ UNCHANGED <<ndebug, meta, base, crashed, ld, bs, mg, fm, md, kn, th>>

\* ContiguousChunk(builder, bounds, depth, id, maxPoints, autosave = false):
\* a chunk its owner saves by hand.
ConstructManual(id) ==
    /\ ~crashed
    /\ chunks[id] = NoChunk
    /\ id < Structure.mappedIndexBegin
    /\ constructed < MaxConstructed
    /\ chunks' = [chunks EXCEPT ![id] =
            NewChunk("Contiguous", Structure.coldDepthBegin, id,
                     Structure.basePointsPerChunk, FALSE)]
    /\ chunkCount' = chunkCount + 1
    /\ constructed' = constructed + 1
    /\ puts' = <<>>
    /\ UNCHANGED <<ndebug, meta, base, crashed, ld, bs, mg, fm, md, kn, th>>

\* BaseChunk::BaseChunk(builder): whatever the constructors of the base and
\* of its per-depth chunks counted, the counter ends at 1.
CreateBase ==
    /\ ~crashed
    /\ base = NoBase
    /\ constructed < MaxConstructed
    /\ base' = NewBase
    /\ chunkCount' = 1
    /\ constructed' = constructed + 1
    /\ puts' = <<>>
    /\ UNCHANGED <<ndebug, meta, chunks, crashed, ld, bs, mg, fm, md, kn, th>>

\* insert(climber, cell) of one point record into a live cold chunk.
Insert(id, rec) ==
    /\ ~crashed
    /\ chunks[id] # NoChunk
    /\ ~chunks[id].data.set
    /\ InChunk(chunks[id], PointOf(rec))
    /\ NumRecs(chunks[id].cells) < MaxCellRecs
    /\ chunks' = [chunks EXCEPT ![id].cells = InsertCell(chunks[id], rec)]
    /\ puts' = <<>>
    /\ UNCHANGED <<ndebug, meta, base, chunkCount, constructed, crashed, ld, bs, mg, fm, md, kn, th>>

\* chunk.collect(type), called on a live chunk with its own type.
Collect(id) ==
    /\ ~crashed
    /\ chunks[id] # NoChunk
    /\ chunks[id].tiles < MaxTiles
    /\ \E o \in CollectOutcomes(ndebug, meta, chunks[id], OwnType(chunks[id])) :
          /\ chunks' = [chunks EXCEPT ![id] = o.chunk]
          /\ crashed' = ~o.ok
    /\ puts' = <<>>
    /\ UNCHANGED <<ndebug, meta, base, chunkCount, constructed, ld, bs, mg, fm, md, kn, th>>

\* The destruction of a cold chunk: ~SparseChunk / ~ContiguousChunk, then
\* Chunk::~Chunk.
Destroy(id) ==
    /\ ~crashed
    /\ chunks[id] # NoChunk
    /\ \E o \in (IF DtorCollects(chunks[id])
                 THEN CollectOutcomes(ndebug, meta, chunks[id], OwnType(chunks[id]))
                 ELSE {[ok |-> TRUE, chunk |-> chunks[id]]}) :
          IF o.ok
          THEN /\ puts' = DtorPuts(meta, o.chunk)
               /\ chunkCount' = DecCount(chunkCount)
               /\ chunks' = [chunks EXCEPT ![id] = NoChunk]
               /\ UNCHANGED crashed
          ELSE /\ crashed' = TRUE
               /\ puts' = <<>>
               /\ UNCHANGED <<chunks, chunkCount>>
    /\ UNCHANGED <<ndebug, meta, base, constructed, ld, bs, mg, fm, md, kn, th>>

\* The destruction of the BaseChunk: its per-depth ContiguousChunks (autosave
\* off, never collected) and then Chunk::~Chunk of the base itself; m_data is
\* unset in each, so each only counts down.
DestroyBase ==
    /\ ~crashed
    /\ base # NoBase
    /\ puts' = <<>>
    /\ chunkCount' = DecCountTimes(chunkCount, BaseInnerChunks(base) + 1)
    /\ base' = NoBase
    /\ UNCHANGED <<ndebug, meta, chunks, constructed, crashed, ld, bs, mg, fm, md, kn, th>>

Next ==
    \/ \E id \in ColdIds : Create(id)
    \/ \E id \in ColdIds : ConstructManual(id)
    \/ CreateBase
    \/ \E id \in ColdIds, rec \in LifeRecords : Insert(id, rec)
    \/ \E id \in ColdIds : Collect(id)
    \/ \E id \in ColdIds : Destroy(id)
    \/ DestroyBase

Spec == Init /\ [][Next]_vars

-----------------------------------------------------------------------------
(* The pack and reload of one cold chunk.                                  *)

\* The formats a blob is reloaded under: the tail carries both fields, in
\* either order; raw, compressed, and compressed with a delta.
LoadMetas ==
    { [format |-> Fmt(c.compress, c.delta, tail), cesium |-> FALSE, subset |-> 0] :
        c \in { [compress |-> FALSE, delta |-> NoDelta],
                [compress |-> TRUE, delta |-> NoDelta],
                [compress |-> TRUE, delta |-> [scale |-> 2, offset |-> 1]] },
        tail \in { <<"numPoints", "chunkType">>, <<"chunkType", "numPoints">> } }

\* The depths and ids Chunk::create is called with.
LoadDepths == {0, Structure.coldDepthBegin}

LoadIds == {BaseId} \cup ColdIds

\* The chunk type bytes a stored tail can carry.
TypeBytes == {0, 1, 255}

\* The place of the chunkType byte in a blob.
TypeBytePos(fmt, blob) ==
    IF fmt.tail[Len(fmt.tail)] = "chunkType" THEN Len(blob) ELSE Len(blob) - 2

LoadInit ==
    /\ ndebug = TRUE
    /\ meta \in LoadMetas
    /\ chunks = [i \in ColdIds |-> NoChunk]
    /\ base = NoBase
    /\ chunkCount = 0
    /\ constructed = 0
    /\ puts = <<>>
    /\ crashed = FALSE
    /\ ld = LdIdle
    /\ bs = BsIdle
    /\ mg = MgIdle
    /\ fm = FmIdle
    /\ md = MdIdle
    /\ kn = KnIdle
    /\ th = ThIdle

\* Chunk::create(builder, bounds, depth, id, maxPoints).
LdCreate(depth, id) ==
    /\ ld.pc = "start"
    /\ LET variant == CreateVariant(depth, id)
       IN  ld' = [ld EXCEPT
                    !.pc = "made", !.depth = depth, !.id = id, !.made = variant,
                    !.chunk = IF variant = "Base" THEN NewBase
                              ELSE NewChunk(variant, depth, id,
                                            Structure.basePointsPerChunk, TRUE)]
    /\ chunkCount' = IF CreateVariant(depth, id) = "Base" THEN 1 ELSE chunkCount + 1
    /\ UNCHANGED <<ndebug, meta, chunks, base, constructed, puts, crashed, bs, mg, fm, md, kn, th>>

\* insert(climber, cell) of one point record into the cold chunk.
LdPopulate(rec) ==
    /\ ld.pc = "made"
    /\ ld.made \in {"Sparse", "Contiguous"}
    /\ ld.depth = Structure.coldDepthBegin
    /\ InChunk(ld.chunk, PointOf(rec))
    /\ NumRecs(ld.chunk.cells) < MaxCellRecs
    /\ ld' = [ld EXCEPT !.chunk.cells = InsertCell(ld.chunk, rec)]
    /\ UNCHANGED <<lifeVars, bs, mg, fm, md, kn, th>>

\* chunk.collect(type): the blob the destructor will put.
LdCollect ==
    /\ ld.pc = "made"
    /\ ld.made \in {"Sparse", "Contiguous"}
    /\ LET c == CollectFresh(meta, ld.chunk, OwnType(ld.chunk))
       IN  ld' = [ld EXCEPT !.pc = "packed", !.orig = ld.chunk.cells,
                            !.chunk = c, !.blob = c.data.bytes]
    /\ UNCHANGED <<lifeVars, bs, mg, fm, md, kn, th>>

\* The stored blob comes back with another chunkType byte.
LdTamper(b) ==
    /\ ld.pc = "packed"
    /\ ~ld.tampered
    /\ ld.blob[TypeBytePos(meta.format, ld.blob)] # b
    /\ ld' = [ld EXCEPT !.tampered = TRUE,
                        !.blob[TypeBytePos(meta.format, ld.blob)] = b]
    /\ UNCHANGED <<lifeVars, bs, mg, fm, md, kn, th>>

\* Chunk::create(builder, bounds, depth, id, maxPoints, data).
LdLoad ==
    /\ ld.pc = "packed"
    /\ ld' = [ld EXCEPT !.pc = "loaded",
                !.result = CreateFromData(meta, ld.depth, ld.id,
                                          Structure.basePointsPerChunk, ld.blob)]
    /\ UNCHANGED <<lifeVars, bs, mg, fm, md, kn, th>>

LoadNext ==
    \/ \E depth \in LoadDepths, id \in LoadIds : LdCreate(depth, id)
    \/ \E rec \in LifeRecords : LdPopulate(rec)
    \/ LdCollect
    \/ \E b \in TypeBytes : LdTamper(b)
    \/ LdLoad

SpecLoad == LoadInit /\ [][LoadNext]_vars

-----------------------------------------------------------------------------
(* The save and load of the BaseChunk.                                     *)

\* The point records inserted into the base: two at one point, one that
\* meets them at depth 1 and goes down, and others in other tubes.
BaseRecords ==
    { Rec(0, 0, 0, 1), Rec(0, 0, 0, 2), Rec(1, 1, 3, 1),
      Rec(5, 2, 6, 1), Rec(4, 0, 7, 2), Rec(6, 7, 1, 1) }

\* The tubes of the base that a point of the model climbs to.
BaseTubes ==
    { ClimbIndex(PointOf(r), d) - BaseId : r \in BaseRecords, d \in BaseDepths }

\* The place of the TubeId of the i-th celled record in a saved blob.
TubePos(fmt, i) ==
    (IF fmt.compress THEN 1 ELSE 0) + (i - 1) * PointSize(MakeCelled(fmt.schema)) + 1

\* The celled records a blob holds.
CelledIn(fmt, blob) ==
    LET u == Unpack(fmt, blob)
        ws == IF fmt.compress THEN Decompress(u.data) ELSE u.data
    IN  Split(ws, PointSize(MakeCelled(fmt.schema)))

\* The metadata a BaseChunk is saved and loaded under: those of the cold
\* chunks, and subset builds with and without compression and cesium output.
BaseMetas ==
    LoadMetas \cup
    { [format |-> Fmt(c, NoDelta, <<"numPoints", "chunkType">>),
       cesium |-> c, subset |-> s] : c \in BOOLEAN, s \in {1, 2} }

\* The tube lies in the ids the BaseChunk of the metadata holds.
TubeInBase(m, t) ==
    LET d == CalcDepth(Structure.factor, BaseId + t)
        ch == BaseOf(m.subset).chunks[d]
    IN  BaseId + t >= ch.id /\ BaseId + t < EndId(ch)

BaseInit ==
    /\ ndebug = TRUE
    /\ meta \in BaseMetas
    /\ chunks = [i \in ColdIds |-> NoChunk]
    /\ base = NoBase
    /\ chunkCount = 1
    /\ constructed = 1
    /\ puts = <<>>
    /\ crashed = FALSE
    /\ ld = LdIdle
    /\ bs = [BsIdle EXCEPT !.obj = BaseOf(meta.subset), !.kept = BaseOf(meta.subset).chunks]
    /\ mg = MgIdle
    /\ fm = FmIdle
    /\ md = MdIdle
    /\ kn = KnIdle
    /\ th = ThIdle

\* BaseChunk::insert(climber, cell), the climber at baseDepthBegin.
BsInsert(rec) ==
    /\ bs.pc = "live"
    /\ bs.obj # NoBase
    /\ NumRecsOfDepths(bs.obj.chunks, Structure.baseDepthBegin) < MaxBaseRecs
    /\ InChunk(bs.obj.chunks[Structure.baseDepthBegin], PointOf(rec))
    /\ bs' = [bs EXCEPT !.obj.chunks =
                  PlaceFrom(bs.obj.chunks, rec, Structure.baseDepthBegin)]
    /\ puts' = <<>>
    /\ UNCHANGED <<ndebug, meta, chunks, base, chunkCount, constructed, crashed, ld, mg, fm, md, kn, th>>

\* BaseChunk::save(endpoint).
BsSave ==
    /\ bs.pc = "live"
    /\ bs.obj # NoBase
    /\ bs' = [bs EXCEPT !.pc = "saved",
                        !.kept = bs.obj.chunks,
                        !.blob = BaseSaveBlob(meta.format, bs.obj),
                        !.obj = BaseAfterSave(meta, bs.obj)]
    /\ puts' = << [id |-> BaseId, postfix |-> Postfix(meta, FALSE),
                   bytes |-> BaseSaveBlob(meta.format, bs.obj)] >>
    /\ UNCHANGED <<ndebug, meta, chunks, base, chunkCount, constructed, crashed, ld, mg, fm, md, kn, th>>

\* The destruction of the BaseChunk, saved or not.
BsDestroy ==
    /\ bs.pc \in {"live", "saved"}
    /\ bs.obj # NoBase
    /\ puts' = BaseDtorPuts(meta, bs.obj)
    /\ chunkCount' = DecCountTimes(chunkCount, BaseInnerChunks(bs.obj) + 1)
    /\ bs' = [bs EXCEPT !.obj = NoBase]
    /\ UNCHANGED <<ndebug, meta, chunks, base, constructed, crashed, ld, mg, fm, md, kn, th>>

\* The stored blob comes back, in a later run, with another TubeId in its
\* i-th record.
BsTamper(i, t) ==
    /\ bs.pc = "saved"
    /\ bs.obj = NoBase
    /\ i \notin bs.tampered
    /\ Cardinality(bs.tampered) < MaxTampered
    /\ i <= Len(CelledIn(meta.format, bs.blob))
    /\ bs.blob[TubePos(meta.format, i)] # t
    /\ TubeInBase(meta, t)
    /\ bs' = [bs EXCEPT !.tampered = @ \cup {i},
                        !.blob[TubePos(meta.format, i)] = t]
    /\ puts' = <<>>
    /\ UNCHANGED <<ndebug, meta, chunks, base, chunkCount, constructed, crashed, ld, mg, fm, md, kn, th>>

\* Chunk::create(builder, bounds, 0, baseId, 0, data): the BaseChunk is
\* constructed from the unpacker.
BsLoad ==
    /\ bs.pc = "saved"
    /\ bs.obj = NoBase
    /\ bs' = [bs EXCEPT
                !.pc = "loaded",
                !.result = BaseLoad(meta, Unpack(meta.format, bs.blob)),
                !.created = CreateFromData(meta, 0, BaseId, 0, bs.blob).status]
    /\ puts' = <<>>
    /\ UNCHANGED <<ndebug, meta, chunks, base, chunkCount, constructed, crashed, ld, mg, fm, md, kn, th>>

BaseNext ==
    \/ \E rec \in BaseRecords : BsInsert(rec)
    \/ BsSave
    \/ BsDestroy
    \/ \E i \in 1 .. MaxBaseRecs, t \in BaseTubes : BsTamper(i, t)
    \/ BsLoad

SpecBase == BaseInit /\ [][BaseNext]_vars

-----------------------------------------------------------------------------
(* The merge of subset BaseChunks.                                         *)

\* The subsets whose BaseChunk takes part in a merge; 0 is a whole build.
MergeSubsets == 0 .. SubsetOf

\* The values of Structure::bumpDepth(): 0 is no bump depth.
BumpDepths == 0 .. (Structure.baseDepthEnd - 1)

\* The BaseChunk of subset s as it is loaded for a merge: empty, or holding
\* the records of the model that lie in its span.
MergeRecords ==
    << Rec(0, 0, 0, 1), Rec(0, 0, 0, 2), Rec(1, 1, 3, 1),
       Rec(5, 2, 6, 1), Rec(4, 0, 7, 2), Rec(6, 7, 1, 1) >>

RECURSIVE PlaceAll(_, _)
PlaceAll(chs, recs) ==
    IF recs = <<>> THEN chs
    ELSE PlaceAll(IF InChunk(chs[Structure.baseDepthBegin], PointOf(Head(recs)))
                  THEN PlaceFrom(chs, Head(recs), Structure.baseDepthBegin)
                  ELSE chs,
                  Tail(recs))

LoadedBase(s, full) ==
    IF full
    THEN [BaseOf(s) EXCEPT !.chunks = PlaceAll(BaseOf(s).chunks, MergeRecords)]
    ELSE BaseOf(s)

\* A ContiguousChunk after it was moved from: its tubes went with the move.
MovedFrom(ch) == [ch EXCEPT !.cells = EmptyCells]

\* BaseChunk::makeWritable(): m_writes gets, per base depth, the chunk of
\* m_chunks, once.
MakeWritable(b) ==
    IF b.writable THEN b
    ELSE [b EXCEPT !.writable = TRUE,
                   !.writes = [d \in BaseDepths |-> <<b.chunks[d]>>],
                   !.chunks = [d \in DOMAIN b.chunks |->
                                  IF d \in BaseDepths THEN MovedFrom(b.chunks[d])
                                  ELSE b.chunks[d]]]

\* The span a write buffer covers: the endId of its last chunk less the id
\* of its first.
WriteSpan(write) == EndId(write[Len(write)]) - write[1].id

\* The loop of merge(other) without its adjacency check.
RECURSIVE MergeFromUnchecked(_, _)
MergeFromUnchecked(b, d) ==
    IF d >= Structure.baseDepthEnd \/ b.err # "none" THEN b
    ELSE LET moved == [b EXCEPT !.writes[d] = Append(b.writes[d], b.other.chunks[d]),
                                !.other.chunks[d] = MovedFrom(b.other.chunks[d])]
         IN  MergeFromUnchecked(moved, d + 1)

\* The loop of BaseChunk::merge(other) from depth d on: the adjacency check,
\* the move of other's chunk into the write buffer, and the bump branch,
\* which throws where the span of the buffer is basePointsPerChunk.
RECURSIVE MergeFrom(_, _)
MergeFrom(b, d) ==
    IF d >= Structure.baseDepthEnd \/ b.err # "none" THEN b
    ELSE LET write == b.writes[d]
             adding == b.other.chunks[d]
         IN  IF write # <<>> /\ EndId(write[Len(write)]) # adding.id
             THEN [b EXCEPT !.err = "consecutive"]
             ELSE LET moved == [b EXCEPT !.writes[d] = Append(write, adding),
                                         !.other.chunks[d] = MovedFrom(adding)]
                  IN  IF /\ b.bump # 0
                         /\ d >= b.bump
                         /\ WriteSpan(moved.writes[d]) = Structure.basePointsPerChunk
                      THEN [moved EXCEPT !.err = "bounds"]
                      ELSE MergeFrom(moved, d + 1)

\* BaseChunk::merge(other).
Merge(b, other) ==
    MergeFrom([MakeWritable(b) EXCEPT !.other = other, !.ids = {}],
              Structure.baseDepthBegin)

MergeInit ==
    /\ ndebug = TRUE
    /\ meta \in {m \in LoadMetas : m.format.delta = NoDelta}
    /\ chunks = [i \in ColdIds |-> NoChunk]
    /\ base = NoBase
    /\ chunkCount = 1
    /\ constructed = 1
    /\ puts = <<>>
    /\ crashed = FALSE
    /\ ld = LdIdle
    /\ bs = BsIdle
    /\ \E s \in MergeSubsets, bump \in BumpDepths, full \in BOOLEAN :
          mg = [MgIdle EXCEPT !.self = s, !.bump = bump,
                              !.chunks = LoadedBase(s, full).chunks]
    /\ fm = FmIdle
    /\ md = MdIdle
    /\ kn = KnIdle
    /\ th = ThIdle

\* base.merge(other), other being the BaseChunk of subset s.
MgMerge(s, full) ==
    /\ mg.pc \in {"start", "merging"}
    /\ Len(mg.merged) < MaxMerges
    /\ LET r == Merge(mg, LoadedBase(s, full))
       IN  mg' = [r EXCEPT !.pc = IF r.err = "none" THEN "merging" ELSE "failed",
                           !.merged = Append(mg.merged, s)]
    /\ puts' = <<>>
    /\ UNCHANGED <<ndebug, meta, chunks, base, chunkCount, constructed, crashed,
                   ld, bs, fm, md, kn, th>>

MergeNext ==
    \E s \in MergeSubsets, full \in BOOLEAN : MgMerge(s, full)

SpecMerge == MergeInit /\ [][MergeNext]_vars

-----------------------------------------------------------------------------
(* One Format: its construction and a pack.                                *)

\* The tail field lists a Format is constructed with.
TailLists ==
    UNION { [1 .. n -> TailFieldNames] : n \in 0 .. MaxTailLen }

\* The deltas a Format is constructed with.
Deltas == {NoDelta, [scale |-> 2, offset |-> 1]}

\* The point records packed.
FormatRecords == LifeRecords \cup BaseRecords

FormatInit ==
    /\ ndebug = TRUE
    /\ meta \in {m \in LoadMetas : m.format.delta = NoDelta /\ ~m.format.compress}
    /\ chunks = [i \in ColdIds |-> NoChunk]
    /\ base = NoBase
    /\ chunkCount = 0
    /\ constructed = 0
    /\ puts = <<>>
    /\ crashed = FALSE
    /\ ld = LdIdle
    /\ bs = BsIdle
    /\ mg = MgIdle
    /\ \E compress \in BOOLEAN, delta \in Deltas, tail \in TailLists :
          fm = [FmIdle EXCEPT !.compress = compress, !.delta = delta, !.tail = tail]
    /\ md = MdIdle
    /\ kn = KnIdle
    /\ th = ThIdle

\* Format::Format(schema, delta, trustHeaders, compress, hierarchyCompression,
\* tailFields, srs).
FmConstruct ==
    /\ fm.pc = "start"
    /\ fm' = [fm EXCEPT !.pc = IF FormatAccepted(fm.compress, fm.tail)
                               THEN "accepted" ELSE "refused"]
    /\ UNCHANGED <<lifeVars, ld, bs, mg, md, kn, th>>

\* One more point record on the data stack that will be packed.
FmPush(rec) ==
    /\ fm.pc = "accepted"
    /\ Len(fm.stack) < MaxCellRecs
    /\ fm' = [fm EXCEPT !.stack = Append(fm.stack, rec)]
    /\ UNCHANGED <<lifeVars, ld, bs, mg, md, kn, th>>

\* format.pack(std::move(dataStack), chunkType).
FmPack(type) ==
    /\ fm.pc = "accepted"
    /\ fm' = [fm EXCEPT
                !.pc = "packed",
                !.type = type,
                !.packed = Pack(Fmt(fm.compress, fm.delta, fm.tail), fm.stack, type),
                !.left = <<>>]
    /\ UNCHANGED <<lifeVars, ld, bs, mg, md, kn, th>>

FormatNext ==
    \/ FmConstruct
    \/ \E rec \in FormatRecords : FmPush(rec)
    \/ \E type \in {"Contiguous", "Sparse"} : FmPack(type)

SpecFormat == FormatInit /\ [][FormatNext]_vars

-----------------------------------------------------------------------------
(* One Metadata: toJson, save, the postfix of the blobs and makeWhole.     *)

\* The keys Metadata::toJson writes unconditionally.
RequiredKeys ==
    { "boundsNative", "boundsConforming", "bounds", "schema", "structure",
      "hierarchyStructure", "format" }

\* The subset ids a Metadata is built with, 0 for no subset.
MetaSubsets == {0, 1, 2}

\* The transformations a Metadata holds: none, or a vector of doubles.
Transformations ==
    {NoTransformation} \cup
    { [set |-> TRUE, values |-> vs] :
        vs \in UNION { [1 .. n -> {1}] : n \in 0 .. MaxTransLen } }

\* The error lists a Metadata holds.
ErrorLists == UNION { [1 .. n -> {"e"}] : n \in 0 .. MaxErrors }

\* Metadata::toJson().
ToJson(m) ==
    [ keys |->
        RequiredKeys
            \cup (IF m.reprojection THEN {"reprojection"} ELSE {})
            \cup (IF m.subset # 0 THEN {"subset"} ELSE {})
            \cup (IF m.delta THEN {"scale", "offset"} ELSE {})
            \cup (IF m.transformation.set
                  THEN {"transformation" : i \in DOMAIN m.transformation.values}
                  ELSE {})
            \cup (IF m.cesium THEN {"formats.cesium"} ELSE {})
            \cup (IF Len(m.errors) # 0
                  THEN {"errors" : i \in DOMAIN m.errors}
                  ELSE {}),
      subset |-> m.subset,
      transformation |-> IF m.transformation.set THEN m.transformation.values ELSE <<>>,
      errors |-> m.errors ]

\* What Metadata::save(endpoint) puts.
MetaPuts(m) ==
    LET pf == Postfix(m, FALSE)
    IN  << [kind |-> "entwine", id |-> 0, postfix |-> pf] >>
        \o (IF m.manifest
            THEN << [kind |-> "entwine-manifest", id |-> 0, postfix |-> pf] >>
            ELSE <<>>)

\* Metadata::Metadata(json): the Metadata a document is parsed into.
FromJson(m, json) ==
    [ m EXCEPT
        !.subset = IF "subset" \in json.keys THEN json.subset ELSE 0,
        !.reprojection = "reprojection" \in json.keys,
        !.delta = ("scale" \in json.keys \/ "offset" \in json.keys),
        !.transformation =
            IF "transformation" \in json.keys
            THEN [set |-> TRUE, values |-> json.transformation]
            ELSE NoTransformation,
        !.cesium = "formats.cesium" \in json.keys,
        !.errors = IF "errors" \in json.keys THEN json.errors ELSE <<>>,
        !.manifest = FALSE,
        !.whole = FALSE,
        !.saved = <<>> ]

MetaInit ==
    /\ ndebug = TRUE
    /\ meta \in {m \in LifeMetas : m.subset = 0 /\ ~m.cesium}
    /\ chunks = [i \in ColdIds |-> NoChunk]
    /\ base = NoBase
    /\ chunkCount = 0
    /\ constructed = 0
    /\ puts = <<>>
    /\ crashed = FALSE
    /\ ld = LdIdle
    /\ bs = BsIdle
    /\ mg = MgIdle
    /\ fm = FmIdle
    /\ \E s \in MetaSubsets, r \in BOOLEAN, d \in BOOLEAN, c \in BOOLEAN,
          t \in Transformations, e \in ErrorLists, mf \in BOOLEAN :
          md = [MdIdle EXCEPT !.pc = "live", !.subset = s, !.reprojection = r,
                              !.delta = d, !.cesium = c, !.transformation = t,
                              !.errors = e, !.manifest = mf,
                              !.bumped = (s # 0)]
    /\ kn = KnIdle
    /\ th = ThIdle

\* metadata.toJson().
MdToJson ==
    /\ md.pc = "live"
    /\ md' = [md EXCEPT !.json = ToJson(md)]
    /\ UNCHANGED <<lifeVars, ld, bs, mg, fm, kn, th>>

\* metadata.save(endpoint).
MdSave ==
    /\ md.pc = "live"
    /\ md' = [md EXCEPT !.json = ToJson(md), !.saved = MetaPuts(md)]
    /\ UNCHANGED <<lifeVars, ld, bs, mg, fm, kn, th>>

\* The put of a cold chunk of this build, at id + postfix(true).
MdColdPut(id) ==
    /\ md.pc = "live"
    /\ md' = [md EXCEPT !.saved =
                 << [kind |-> "cold", id |-> id, postfix |-> Postfix(md, TRUE)] >>]
    /\ UNCHANGED <<lifeVars, ld, bs, mg, fm, kn, th>>

\* The put of the BaseChunk of this build, at id + postfix().
MdBasePut ==
    /\ md.pc = "live"
    /\ md' = [md EXCEPT !.saved =
                 << [kind |-> "base", id |-> BaseId, postfix |-> Postfix(md, FALSE)] >>]
    /\ UNCHANGED <<lifeVars, ld, bs, mg, fm, kn, th>>

\* metadata.makeWhole().
MdMakeWhole ==
    /\ md.pc = "live"
    /\ md' = [md EXCEPT !.subset = 0, !.bumped = FALSE, !.whole = TRUE,
                        !.saved = <<>>]
    /\ UNCHANGED <<lifeVars, ld, bs, mg, fm, kn, th>>

\* Metadata(json) on the document the last toJson wrote.
MdFromJson ==
    /\ md.pc = "live"
    /\ md.json # NoJson
    /\ md' = FromJson(md, md.json)
    /\ UNCHANGED <<lifeVars, ld, bs, mg, fm, kn, th>>

MetaNext ==
    \/ MdToJson
    \/ MdSave
    \/ \E id \in ColdIds : MdColdPut(id)
    \/ MdBasePut
    \/ MdMakeWhole
    \/ MdFromJson

SpecMeta == MetaInit /\ [][MetaNext]_vars

-----------------------------------------------------------------------------
(* The entwine executable: main, the options of Kernel::build and          *)
(* Kernel::link.  A command-line argument is a sequence of characters.     *)

Letters ==
    { "a", "b", "c", "d", "e", "f", "g", "h", "i", "k", "l", "m", "n", "o",
      "p", "q", "r", "s", "t", "u", "v", "x" }

Digits == {"0", "1", "2", "4"}

\* std::isalpha(c).
IsAlpha(c) == c \in Letters

\* The value of a decimal digit.
DigitVal(c) == CASE c = "0" -> 0 [] c = "1" -> 1 [] c = "2" -> 2 [] c = "4" -> 4

\* The value of the decimal digits an argument starts with.
RECURSIVE LeadingValue(_, _)
LeadingValue(w, acc) ==
    IF w = <<>> \/ Head(w) \notin Digits
    THEN acc
    ELSE LeadingValue(Tail(w), 10 * acc + DigitVal(Head(w)))

\* std::stoul(w) and std::stod(w) on an unsigned decimal argument: the value
\* of the leading digits, std::invalid_argument when there is none.
StoUL(w) ==
    IF w # <<>> /\ Head(w) \in Digits
    THEN [ok |-> TRUE, val |-> LeadingValue(w, 0)]
    ELSE [ok |-> FALSE, val |-> 0]

StoD(w) == StoUL(w)

\* The kernel names of the command line.
KBuild == <<"b", "u", "i", "l", "d">>
KMerge == <<"m", "e", "r", "g", "e">>
KLink == <<"l", "i", "n", "k">>
KInfer == <<"i", "n", "f", "e", "r">>
KConvert == <<"c", "o", "n", "v", "e", "r", "t">>
KHelp == <<"h", "e", "l", "p">>
KDashH == <<"-", "h">>
KDashDashHelp == <<"-", "-", "h", "e", "l", "p">>
KBogus == <<"q">>

KernelWords ==
    {KBuild, KMerge, KLink, KInfer, KConvert, KHelp, KDashH, KDashDashHelp, KBogus}

\* The option "-c" for a letter c.
Opt(c) == <<"-", c>>

\* The options of Kernel::build that take the next argument as their value.
ValueOptions == {"i", "o", "a", "u", "g", "t"}

\* The options of Kernel::build that take no value.
FlagOptions == {"f", "x", "p", "c", "n", "e", "h"}

\* The json key an option of Kernel::build assigns.
KeyOf(c) ==
    CASE c = "i" -> "input.manifest"
      [] c = "o" -> "output.path"
      [] c = "a" -> "output.tmp"
      [] c = "u" -> "arbiter.s3.profile"
      [] c = "g" -> "input.run"
      [] c = "t" -> "input.threads"
      [] c = "f" -> "output.force"
      [] c = "x" -> "input.trustHeaders"
      [] c = "p" -> "structure.prefixIds"
      [] c = "c" -> "output.compress"
      [] c = "n" -> "absolute"
      [] c = "e" -> "arbiter.s3.sse"
      [] c = "h" -> "geometry.reproject.hammer"

\* `-xvalue` is expanded to `-x value` by main.
ExpandArg(arg) ==
    IF Len(arg) > 2 /\ arg[1] = "-" /\ IsAlpha(arg[2])
    THEN << SubSeq(arg, 1, 2), SubSeq(arg, 3, Len(arg)) >>
    ELSE << arg >>

RECURSIVE ExpandArgs(_)
ExpandArgs(argv) ==
    IF argv = <<>> THEN <<>> ELSE ExpandArg(Head(argv)) \o ExpandArgs(Tail(argv))

\* The exit status of a process ended by std::terminate or abort (SIGABRT).
Aborted == 134

\* What arg.front() can give: the first character, and on an empty string,
\* where front() has no defined result, the terminating NUL or an abort of a
\* checked build.
Fronts(arg) == IF arg = <<>> THEN {"NUL", "abort"} ELSE {arg[1]}

\* args[i] by its C++ index.
ArgAt(k, i) == k.args[i + 1]

\* throw what: "runtime_error", "invalid_argument", or the abort of the process.
Throw(k, what) == [k EXCEPT !.outcome = what]

\* The `-b` loop: a advances until an argument holds ']' or the list ends.
RECURSIVE BoundsScan(_, _)
BoundsScan(k, a) ==
    IF a + 1 >= Len(k.args)
    THEN [done |-> FALSE, a |-> a + 1]
    ELSE IF \E i \in DOMAIN ArgAt(k, a + 1) : ArgAt(k, a + 1)[i] = "]"
         THEN [done |-> TRUE, a |-> a + 1]
         ELSE BoundsScan(k, a + 1)

\* The `-s` branch, front being what args[a + 1].front() gave where the code
\* evaluates it.
ScaleOrSubset(k, front) ==
    LET a == k.a + 1
    IN  IF a >= Len(k.args)
        THEN Throw([k EXCEPT !.a = a], "runtime_error")
        ELSE IF a + 1 >= Len(k.args) \/ front = "-"
             THEN IF StoD(ArgAt(k, a)).ok
                  THEN [k EXCEPT !.a = a,
                                 !.scale = @ \o << StoD(ArgAt(k, a)).val,
                                                   StoD(ArgAt(k, a)).val,
                                                   StoD(ArgAt(k, a)).val >>,
                                 !.assigned = @ \cup {"scale"}]
                  ELSE Throw([k EXCEPT !.a = a], "invalid_argument")
             ELSE IF front = "abort"
                  THEN Throw([k EXCEPT !.a = a], "abort")
                  ELSE IF StoUL(ArgAt(k, a)).ok /\ StoUL(ArgAt(k, a + 1)).ok
                       THEN [k EXCEPT !.a = a + 1,
                                      !.subset = [id |-> StoUL(ArgAt(k, a)).val,
                                                  of |-> StoUL(ArgAt(k, a + 1)).val],
                                      !.assigned = @ \cup {"subset"}]
                       ELSE Throw([k EXCEPT !.a = IF StoUL(ArgAt(k, a)).ok
                                                  THEN a + 1 ELSE a],
                                  "invalid_argument")

\* The `-r` branch.
Reprojection(k, front) ==
    LET a == k.a + 1
    IN  IF a >= Len(k.args)
        THEN Throw([k EXCEPT !.a = a], "runtime_error")
        ELSE IF a + 1 >= Len(k.args) \/ front = "-"
             THEN [k EXCEPT !.a = a,
                            !.assigned = @ \cup {"geometry.reproject.out"}]
             ELSE IF front = "abort"
                  THEN Throw([k EXCEPT !.a = a], "abort")
                  ELSE [k EXCEPT !.a = a + 1,
                                 !.assigned = @ \cup {"geometry.reproject.in",
                                                      "geometry.reproject.out"}]

\* One pass of the body of the option loop of Kernel::build, without the
\* closing ++a.
OptionBody(k, front) ==
    LET arg == ArgAt(k, k.a)
        c == IF Len(arg) = 2 /\ arg[1] = "-" THEN arg[2] ELSE "none"
    IN  IF c \in ValueOptions
        THEN IF k.a + 1 < Len(k.args)
             THEN IF c \in {"g", "t"} /\ ~StoUL(ArgAt(k, k.a + 1)).ok
                  THEN Throw([k EXCEPT !.a = k.a + 1], "invalid_argument")
                  ELSE [k EXCEPT !.a = k.a + 1, !.assigned = @ \cup {KeyOf(c)}]
             ELSE Throw([k EXCEPT !.a = k.a + 1], "runtime_error")
        ELSE IF c = "b"
        THEN LET scan == BoundsScan(k, k.a)
             IN  IF scan.done
                 THEN [k EXCEPT !.a = scan.a,
                                !.assigned = @ \cup {"geometry.bounds"}]
                 ELSE Throw([k EXCEPT !.a = scan.a], "runtime_error")
        ELSE IF c \in FlagOptions
        THEN [k EXCEPT !.assigned = @ \cup {KeyOf(c)}]
        ELSE IF c = "s" THEN ScaleOrSubset(k, front)
        ELSE IF c = "r" THEN Reprojection(k, front)
        ELSE Throw(k, "runtime_error")

\* A pass of the option loop that lacks the closing ++a.
BuildOptionStays(k, front) ==
    OptionBody(k, front)

\* One pass of the option loop of Kernel::build.
BuildOption(k, front) ==
    LET r == OptionBody(k, front)
    IN  IF r.outcome = "running" THEN [r EXCEPT !.a = r.a + 1] ELSE r

\* The argument whose front() the `-s` and `-r` branches look at, "none" when
\* the pass evaluates no front().
LookAhead(k) ==
    IF /\ ArgAt(k, k.a) \in {Opt("s"), Opt("r")}
       /\ k.a + 2 < Len(k.args)
    THEN Fronts(ArgAt(k, k.a + 2))
    ELSE {"none"}

\* The exit status of the process for the way the kernel ended: main catches
\* std::runtime_error only.
ExitOf(outcome) ==
    CASE outcome = "runtime_error" -> 1
      [] outcome \in {"invalid_argument", "abort"} -> Aborted
      [] outcome \in {"usage", "done"} -> 0

\* The process ends the way k.outcome says.
Ended(k) == [k EXCEPT !.pc = "exited", !.exit = ExitOf(k.outcome)]

\* The arguments the build kernel is run with: every list of up to two
\* arguments, and the lists of MaxArgs of the arguments that matter to `-s`,
\* `-b` and the end of the list.
AllWords ==
    { Opt(c) : c \in ValueOptions \cup FlagOptions \cup {"b", "s", "r", "q"} }
        \cup { <<>>, <<"1">>, <<"2">>, <<"x">>, <<"]">>, <<"[">>, KHelp,
               <<"-", "s", "1">>, <<"-", "s", "2">>, <<"-", "t", "4">> }

CoreWords ==
    { Opt("s"), Opt("b"), Opt("f"), Opt("i"), <<>>, <<"2">>, <<"4">>, <<"x">>,
      <<"]">>, <<"-", "s", "1">> }

BuildArgLists ==
    UNION { [1 .. n -> AllWords] : n \in 0 .. 2 }
        \cup UNION { [1 .. n -> CoreWords] : n \in 3 .. MaxArgs }

\* The command lines: no argument at all, a kernel name alone, and the build
\* kernel with its arguments.
CommandLines ==
    {<<>>} \cup { <<w>> : w \in KernelWords }
           \cup { <<KBuild>> \o l : l \in BuildArgLists }

KernelInit ==
    /\ ndebug = TRUE
    /\ meta \in {m \in LifeMetas : m.subset = 0 /\ ~m.cesium}
    /\ chunks = [i \in ColdIds |-> NoChunk]
    /\ base = NoBase
    /\ chunkCount = 0
    /\ constructed = 0
    /\ puts = <<>>
    /\ crashed = FALSE
    /\ ld = LdIdle
    /\ bs = BsIdle
    /\ mg = MgIdle
    /\ fm = FmIdle
    /\ md = MdIdle
    /\ \E argv \in CommandLines : kn = [KnIdle EXCEPT !.pc = "start", !.argv = argv]
    /\ th = ThIdle

\* main up to the call of the kernel: argv holds argv[1 ..].
KnMain ==
    /\ kn.pc = "start"
    /\ kn' =
         IF Len(kn.argv) + 1 < 2
         THEN [kn EXCEPT !.pc = "exited", !.outcome = "usage", !.exit = 1]
         ELSE LET kernel == Head(kn.argv)
                  k == [kn EXCEPT !.args = ExpandArgs(Tail(kn.argv))]
              IN  IF kernel = KBuild THEN [k EXCEPT !.pc = "build", !.kernel = "build"]
                  ELSE IF kernel = KMerge THEN [k EXCEPT !.pc = "kernel", !.kernel = "merge"]
                  ELSE IF kernel = KInfer THEN [k EXCEPT !.pc = "kernel", !.kernel = "infer"]
                  ELSE IF kernel = KConvert THEN [k EXCEPT !.pc = "kernel", !.kernel = "convert"]
                  ELSE Ended([k EXCEPT !.outcome = "usage"])
    /\ UNCHANGED <<lifeVars, ld, bs, mg, fm, md, th>>

\* Kernel::build up to its option loop: the usage requests, and the config
\* file named by a first argument that does not start with '-'.
KnBuildBegin ==
    /\ kn.pc = "build"
    /\ IF kn.args = <<>> \/ (Len(kn.args) = 1
                               /\ kn.args[1] \in {KHelp, KDashH, KDashDashHelp})
       THEN kn' = Ended([kn EXCEPT !.outcome = "usage"])
       ELSE \E front \in Fronts(kn.args[1]) :
               IF front = "abort"
               THEN kn' = Ended(Throw(kn, "abort"))
               ELSE IF front # "-"
               THEN \E readable \in BOOLEAN :
                       kn' = IF readable
                             THEN [kn EXCEPT !.pc = "parse", !.a = 1,
                                             !.assigned = {"config"}]
                             ELSE Ended(Throw(kn, "runtime_error"))
               ELSE kn' = [kn EXCEPT !.pc = "parse", !.a = 0]
    /\ UNCHANGED <<lifeVars, ld, bs, mg, fm, md, th>>

\* One pass of `while (a < args.size())` of Kernel::build.
KnBuildOption ==
    /\ kn.pc = "parse"
    /\ kn.a < Len(kn.args)
    /\ \E front \in LookAhead(kn) :
          LET r == BuildOption(kn, front)
          IN  kn' = IF r.outcome = "running" THEN r ELSE Ended(r)
    /\ UNCHANGED <<lifeVars, ld, bs, mg, fm, md, th>>

\* Kernel::build after the loop: ConfigParser::getBuilder and the build, which
\* end well or raise a std::runtime_error.
KnBuildRun ==
    /\ kn.pc = "parse"
    /\ kn.a >= Len(kn.args)
    /\ \E outcome \in {"done", "runtime_error"} :
          kn' = Ended([kn EXCEPT !.builder = TRUE, !.outcome = outcome])
    /\ UNCHANGED <<lifeVars, ld, bs, mg, fm, md, th>>

\* Kernel::merge, Kernel::infer and Kernel::convert: they end well or raise a
\* std::runtime_error.
KnKernel ==
    /\ kn.pc = "kernel"
    /\ \E outcome \in {"done", "runtime_error"} :
          kn' = Ended([kn EXCEPT !.outcome = outcome])
    /\ UNCHANGED <<lifeVars, ld, bs, mg, fm, md, th>>

KernelNext ==
    \/ KnMain
    \/ KnBuildBegin
    \/ KnBuildOption
    \/ KnBuildRun
    \/ KnKernel

SpecKernel == KernelInit /\ [][KernelNext]_vars

-----------------------------------------------------------------------------
(* Kernel::link(args), called with the arguments main would hand it.       *)

\* A path argument.
PathWord == <<"p">>

\* n subset paths.
Paths(n) == [i \in 1 .. n |-> PathWord]

\* The argument lists Kernel::link is called with: every list of up to
\* MaxLinkArgs paths and -c options, and the longer lists of an output path
\* and up to MaxLinkSubs subset paths, bare or followed by a -c option with or
\* without its value.
LinkArgLists ==
    UNION { [1 .. n -> {PathWord, Opt("c")}] : n \in 0 .. MaxLinkArgs }
        \cup { <<PathWord>> \o Paths(n) \o opt :
                 n \in MaxLinkArgs .. MaxLinkSubs,
                 opt \in { <<>>, <<Opt("c")>>, <<Opt("c"), PathWord>> } }

\* `subs.size() == 4 || subs.size() == 16 || subs.size() == 64` with a 9
\* among the sizes.
ValidSubsetCountWithNine(n) ==
    n \in {4, 9, 16, 64}

\* `subs.size() == 4 || subs.size() == 16 || subs.size() == 64`.
ValidSubsetCount(n) ==
    n \in {4, 16, 64}

\* The argument loop of Kernel::link from index a on, subs paths seen so far.
RECURSIVE LinkScan(_, _, _)
LinkScan(args, a, subs) ==
    IF a >= Len(args)
    THEN [ok |-> TRUE, subs |-> subs]
    ELSE IF args[a + 1] = Opt("c")
         THEN IF a + 1 < Len(args)
              THEN LinkScan(args, a + 2, subs)
              ELSE [ok |-> FALSE, subs |-> subs]
         ELSE LinkScan(args, a + 1, subs + 1)

\* Kernel::link(args) up to the construction of the Builder.
Link(k) ==
    IF Len(k.args) < 5
    THEN Throw(k, "runtime_error")
    ELSE LET scan == LinkScan(k.args, 1, 0)
         IN  IF ~scan.ok
             THEN Throw([k EXCEPT !.subs = scan.subs], "runtime_error")
             ELSE IF ~ValidSubsetCount(scan.subs)
             THEN Throw([k EXCEPT !.subs = scan.subs], "runtime_error")
             ELSE [k EXCEPT !.subs = scan.subs, !.builder = TRUE]

LinkInit ==
    /\ ndebug = TRUE
    /\ meta \in {m \in LifeMetas : m.subset = 0 /\ ~m.cesium}
    /\ chunks = [i \in ColdIds |-> NoChunk]
    /\ base = NoBase
    /\ chunkCount = 0
    /\ constructed = 0
    /\ puts = <<>>
    /\ crashed = FALSE
    /\ ld = LdIdle
    /\ bs = BsIdle
    /\ mg = MgIdle
    /\ fm = FmIdle
    /\ md = MdIdle
    /\ \E args \in LinkArgLists :
          kn = [KnIdle EXCEPT !.pc = "link", !.kernel = "link", !.args = args]
    /\ th = ThIdle

\* Kernel::link(args): the checks, then builder.link(subs), which ends well or
\* raises a std::runtime_error.
KnLink ==
    /\ kn.pc = "link"
    /\ LET r == Link(kn)
       IN  IF r.outcome = "running"
           THEN \E outcome \in {"done", "runtime_error"} :
                   kn' = [r EXCEPT !.pc = "returned", !.outcome = outcome]
           ELSE kn' = [r EXCEPT !.pc = "returned"]
    /\ UNCHANGED <<lifeVars, ld, bs, mg, fm, md, th>>

LinkNext == KnLink

SpecLink == LinkInit /\ [][LinkNext]_vars

-----------------------------------------------------------------------------
(* Format::pack under a delta, for schemas that place X, Y and Z apart.    *)

\* Native schemas: the attribute last, first, and between X and Y.
PackSchemas ==
    { NativeSchema,
      << [name |-> "Intensity", words |-> 1], [name |-> "X", words |-> 2],
         [name |-> "Y", words |-> 2], [name |-> "Z", words |-> 2] >>,
      << [name |-> "X", words |-> 2], [name |-> "Intensity", words |-> 1],
         [name |-> "Y", words |-> 2], [name |-> "Z", words |-> 2] >> }

\* The value a point record holds for the dimension name.
FieldOf(p, name) ==
    CASE name = "X" -> p.x [] name = "Y" -> p.y [] name = "Z" -> p.z
      [] OTHER -> p.a

\* The record of a point laid out by a schema: doubles for the dimensions of
\* two words, the value itself for those of one.
RECURSIVE RecIn(_, _)
RecIn(dims, p) ==
    IF dims = <<>> THEN <<>>
    ELSE (IF Head(dims).words = 2
          THEN DoubleWords(FieldOf(p, Head(dims).name))
          ELSE <<FieldOf(p, Head(dims).name)>>) \o RecIn(Tail(dims), p)

\* The points that are packed: on and off the grid of the delta.
PackPoints == [x : {1, 3}, y : {1, 3}, z : {1, 5}, a : {7, 9}]

DeltaInit ==
    /\ ndebug = TRUE
    /\ meta \in {m \in LoadMetas : m.format.delta # NoDelta}
    /\ chunks = [i \in ColdIds |-> NoChunk]
    /\ base = NoBase
    /\ chunkCount = 0
    /\ constructed = 0
    /\ puts = <<>>
    /\ crashed = FALSE
    /\ ld = LdIdle
    /\ bs = BsIdle
    /\ mg = MgIdle
    /\ \E schema \in PackSchemas :
          fm = [FmIdle EXCEPT !.pc = "accepted", !.compress = TRUE,
                              !.delta = [scale |-> 2, offset |-> 1],
                              !.tail = <<"numPoints", "chunkType">>,
                              !.schema = schema]
    /\ md = MdIdle
    /\ kn = KnIdle
    /\ th = ThIdle

\* One more point record, laid out by the native schema, on the data stack.
DpPush(p) ==
    /\ fm.pc = "accepted"
    /\ Len(fm.stack) < MaxCellRecs
    /\ fm' = [fm EXCEPT !.stack = Append(fm.stack, RecIn(fm.schema, p))]
    /\ UNCHANGED <<lifeVars, ld, bs, mg, md, kn, th>>

\* format.pack(std::move(dataStack), chunkType) of a Format on fm.schema.
DpPack(type) ==
    /\ fm.pc = "accepted"
    /\ fm' = [fm EXCEPT
                !.pc = "packed",
                !.type = type,
                !.packed = Pack([Fmt(fm.compress, fm.delta, fm.tail)
                                    EXCEPT !.schema = fm.schema],
                                fm.stack, type),
                !.left = <<>>]
    /\ UNCHANGED <<lifeVars, ld, bs, mg, md, kn, th>>

DeltaNext ==
    \/ \E p \in PackPoints : DpPush(p)
    \/ \E type \in {"Contiguous", "Sparse"} : DpPack(type)

SpecDelta == DeltaInit /\ [][DeltaNext]_vars

-----------------------------------------------------------------------------
(* Chunk constructors and destructors running on several threads.          *)

\* std::size_t, narrowed: the counter wraps at 2^SizeBits.  The width only
\* has to exceed every count of objects the model reaches.
SizeModulus == Pow(2, SizeBits)

\* ++chunkCount on the atomic.
IncAtomic(n) == (n + 1) % SizeModulus

\* --chunkCount on the atomic: one below zero is the largest std::size_t.
DecAtomic(n) == (n + SizeModulus - 1) % SizeModulus

Threads == 1 .. MaxThreads

ThreadInit ==
    /\ ndebug = TRUE
    /\ meta \in {m \in LifeMetas : m.subset = 0 /\ ~m.cesium}
    /\ chunks = [i \in ColdIds |-> NoChunk]
    /\ base = NoBase
    /\ chunkCount = 0
    /\ constructed = 0
    /\ puts = <<>>
    /\ crashed = FALSE
    /\ ld = LdIdle
    /\ bs = BsIdle
    /\ mg = MgIdle
    /\ fm = FmIdle
    /\ md = MdIdle
    /\ kn = KnIdle
    /\ th = [ThIdle EXCEPT !.pc = [t \in Threads |-> "idle"]]

\* Chunk::Chunk on thread t: ++chunkCount.
ThConstruct(t) ==
    /\ th.pc[t] = "idle"
    /\ constructed < MaxThreadObjects
    /\ chunkCount' = IncAtomic(chunkCount)
    /\ constructed' = constructed + 1
    /\ th' = [th EXCEPT !.live = @ + 1]
    /\ UNCHANGED <<ndebug, meta, chunks, base, puts, crashed, ld, bs, mg, fm, md, kn>>

\* BaseChunk::BaseChunk on thread t, its Chunk part: ++chunkCount.
ThBaseBegin(t) ==
    /\ th.pc[t] = "idle"
    /\ constructed < MaxThreadObjects
    /\ chunkCount' = IncAtomic(chunkCount)
    /\ constructed' = constructed + 1
    /\ th' = [th EXCEPT !.pc[t] = "base"]
    /\ UNCHANGED <<ndebug, meta, chunks, base, puts, crashed, ld, bs, mg, fm, md, kn>>

\* BaseChunk::BaseChunk on thread t, its last statement: chunkCount = 1.
ThBaseEnd(t) ==
    /\ th.pc[t] = "base"
    /\ chunkCount' = 1
    /\ th' = [th EXCEPT !.pc[t] = "idle", !.live = @ + 1]
    /\ UNCHANGED <<ndebug, meta, chunks, base, constructed, puts, crashed, ld, bs, mg, fm, md, kn>>

\* Chunk::~Chunk of a live chunk on thread t, the test `if (chunkCount)`.
ThDestroyTest(t) ==
    /\ th.pc[t] = "idle"
    /\ th.live > 0
    /\ th' = [th EXCEPT !.pc[t] = IF chunkCount # 0 THEN "dec" ELSE "idle",
                        !.live = @ - 1]
    /\ UNCHANGED lifeVars
    /\ UNCHANGED <<ld, bs, mg, fm, md, kn>>

\* Chunk::~Chunk on thread t, the `--chunkCount` behind the test.
ThDestroyDec(t) ==
    /\ th.pc[t] = "dec"
    /\ chunkCount' = DecAtomic(chunkCount)
    /\ th' = [th EXCEPT !.pc[t] = "idle"]
    /\ UNCHANGED <<ndebug, meta, chunks, base, constructed, puts, crashed, ld, bs, mg, fm, md, kn>>

ThreadNext ==
    \/ \E t \in Threads : ThConstruct(t)
    \/ \E t \in Threads : ThBaseBegin(t)
    \/ \E t \in Threads : ThBaseEnd(t)
    \/ \E t \in Threads : ThDestroyTest(t)
    \/ \E t \in Threads : ThDestroyDec(t)

SpecThreads == ThreadInit /\ [][ThreadNext]_vars

-----------------------------------------------------------------------------
(* The claims on the life cycle.                                           *)

\* The chunk objects alive, the BaseChunk counted as one.
NumLive ==
    Cardinality({id \in ColdIds : chunks[id] # NoChunk})
        + (IF base # NoBase THEN 1 ELSE 0)

\* C1: a collect(type) on a chunk that was already collected is a no-op: it
\* does not fail and it leaves m_data as the first collect set it.
C1_SecondCollectIsNoOp ==
    [][\A id \in ColdIds :
          (Collect(id) /\ chunks[id].data.set)
              => (~crashed' /\ chunks'[id].data = chunks[id].data)]_vars

\* C2: the destruction of a cold chunk (a SparseChunk, or a ContiguousChunk
\* with autosave on) collects, issues exactly one put of the packed payload at
\* maybePrefix(id) + postfix(true) and then counts the chunk down; a chunk
\* whose m_data was never set issues no put.
C2_ColdDestructionPutsOnce ==
    [][\A id \in ColdIds :
          Destroy(id) =>
              LET ch == chunks[id]
                  payload == IF ch.data.set
                             THEN ch.data.bytes
                             ELSE Pack(meta.format, DataStackOf(ch.cells), OwnType(ch))
              IN  IF ch.variant = "Sparse" \/ ch.autosave
                  THEN /\ puts' = << [id |-> id, postfix |-> 0, bytes |-> payload] >>
                       /\ chunkCount' = chunkCount - 1
                       /\ chunks'[id] = NoChunk
                  ELSE ~ch.data.set => puts' = <<>>]_vars

\* C3: the counter equals the number of live chunk objects, the BaseChunk
\* counted as one, whatever the order of constructions and destructions.
C3_CountIsLiveChunks == chunkCount = NumLive

\* C4: once every chunk that was constructed has been destroyed, the counter
\* is zero.
C4_CountZeroAfterAllDestroyed ==
    (constructed > 0 /\ NumLive = 0) => chunkCount = 0

\* A BaseChunk and cold chunks were constructed and all of them destroyed.
C4_Witness ==
    /\ constructed = MaxConstructed
    /\ NumLive = 0
    /\ ~crashed
    /\ chunkCount = 0

\* C5 as stated: after collect returns the tubes hold no cell and m_data is
\* a non-empty payload, whatever the chunk held.
C5_PayloadNeverEmpty ==
    [][\A id \in ColdIds :
          (Collect(id) /\ ~crashed')
              => /\ chunks'[id].cells = EmptyCells
                 /\ chunks'[id].data.set
                 /\ Len(chunks'[id].data.bytes) > 0]_vars

\* C5 as amended: after collect returns the tubes hold no cell and m_data is
\* set; its payload is non-empty whenever the chunk held a point record or
\* the tail field list is not empty.
C5_CollectDrainsAndSets ==
    [][\A id \in ColdIds :
          (Collect(id) /\ ~crashed')
              => /\ chunks'[id].cells = EmptyCells
                 /\ chunks'[id].data.set
                 /\ (NumRecs(chunks[id].cells) > 0 \/ meta.format.tail # <<>>)
                        => Len(chunks'[id].data.bytes) > 0]_vars

\* A collect has drained at least one cell out of a chunk and set m_data.
C5_Witness ==
    \E id \in ColdIds :
        /\ chunks[id] # NoChunk
        /\ chunks[id].husks
        /\ chunks[id].data.set
        /\ chunks[id].cells = EmptyCells
        /\ ~crashed

\* C15: with cesium settings tile() runs exactly once in the life of a cold
\* chunk, inside collect; without them it never runs.  A live chunk was
\* tiled once if it has been collected under cesium settings, and never
\* otherwise.
C15_TiledOnceInCollect ==
    \A id \in ColdIds :
        chunks[id] # NoChunk =>
            chunks[id].tiles = (IF meta.cesium /\ chunks[id].data.set THEN 1 ELSE 0)

-----------------------------------------------------------------------------
(* The claims on the pack and reload of a cold chunk.                      *)

\* The multiset of the (point, data bytes) records of a cell map.
RecBag(cells) ==
    LET st == DataStackOf(cells)
    IN  [r \in {st[i] : i \in DOMAIN st} |->
            Cardinality({i \in DOMAIN st : st[i] = r})]

\* The reloaded chunk is of the variant that was packed and holds the
\* multiset of records that was packed.
ReloadedSame ==
    /\ ld.result.status = "chunk"
    /\ ld.result.chunk.variant = ld.made
    /\ RecBag(ld.result.chunk.cells) = RecBag(ld.orig)

C8_VariantByDepthAndId ==
    ld.pc # "start" =>
        ld.made = (IF ld.depth = 0 THEN "Base"
                   ELSE IF ld.id < Structure.mappedIndexBegin THEN "Contiguous"
                   ELSE "Sparse")

\* C9: a blob whose chunkType byte is neither Contiguous nor Sparse never
\* makes Chunk::create with data return normally at depth > 0.
C9_UnknownTypeIsFatal ==
    (/\ ld.pc = "loaded"
     /\ ld.depth > 0
     /\ ChunkTypeOfByte(ld.blob[TypeBytePos(meta.format, ld.blob)]) = "Invalid")
        => ld.result.status = "error"

-----------------------------------------------------------------------------
(* The claims on the save and load of the BaseChunk.                       *)

\* The data records of a cell map, per key, as multisets.
CellBags(cells) ==
    [k \in DOMAIN cells |->
        [r \in {cells[k][i] : i \in DOMAIN cells[k]} |->
            Cardinality({i \in DOMAIN cells[k] : cells[k][i] = r})]]

\* C7: the blob BaseChunk::save wrote loads without "Bad serialized base
\* tube", its tail numPoints is the number of celled records of its payload,
\* and every data record comes back at the depth and tube it was saved from.
C7_BaseSaveLoadRoundTrip ==
    (bs.pc = "loaded" /\ bs.tampered = {}) =>
        /\ bs.result.err = 0
        /\ bs.created = "chunk"
        /\ Unpack(meta.format, bs.blob).numPoints = Len(CelledIn(meta.format, bs.blob))
        /\ \A d \in BaseDepths :
              CellBags(bs.result.chunks[d].cells) = CellBags(bs.kept[d].cells)

\* A base with a cell of two records at depth 1 and a record at depth 2 was
\* saved and loaded.
C7_Witness ==
    /\ bs.pc = "loaded"
    /\ bs.tampered = {}
    /\ bs.result.err = 0
    /\ \E k \in DOMAIN bs.kept[1].cells : Len(bs.kept[1].cells[k]) = 2
    /\ bs.kept[2].cells # EmptyCells
    /\ bs.result.chunks[2].cells = bs.kept[2].cells

\* The records of the loaded blob whose TubeId is not climber.index() - baseId.
BadRecords ==
    LET recs == CelledIn(meta.format, bs.blob)
    IN  { i \in DOMAIN recs :
            LET tube == recs[i][1]
                p == PointOf(SubSeq(recs[i], 3, Len(recs[i])))
            IN  tube + BaseId #
                    ClimbIndex(p, CalcDepth(Structure.factor, BaseId + tube)) }

\* C10: the load aborts at the first record whose TubeId differs from
\* climber.index() - baseId; the records before it were inserted and no
\* later record is.
C10_BadTubeAbortsLoad ==
    bs.pc = "loaded" =>
        LET recs == CelledIn(meta.format, bs.blob)
        IN  IF BadRecords = {}
            THEN bs.result.err = 0 /\ Len(bs.result.inserted) = Len(recs)
            ELSE /\ bs.result.err \in BadRecords
                 /\ \A i \in BadRecords : bs.result.err <= i
                 /\ bs.created = "error"
                 /\ Len(bs.result.inserted) = bs.result.err - 1
                 /\ \A i \in 1 .. (bs.result.err - 1) :
                       bs.result.inserted[i][3] = SubSeq(recs[i], 3, Len(recs[i]))

\* A load aborted at its second record, one record inserted and a third one
\* left alone.
C10_Witness ==
    /\ bs.pc = "loaded"
    /\ bs.result.err = 2
    /\ Len(bs.result.inserted) = 1
    /\ Len(CelledIn(meta.format, bs.blob)) = 3

\* C11: BaseChunk::save emits one celled record per data record of every
\* cell of every tube of every base-depth chunk, the tubeId
\* chunk.id + tubeIndex - baseId before the bytes of the point record, appends
\* a tail of chunk type Contiguous and puts the blob at
\* baseId + postfix(isCold = false).
C11_SaveEmitsCelledRecords ==
    [][BsSave =>
        LET recs == CelledIn(meta.format, bs'.blob)
            held == { h \in UNION { {d} \X (DOMAIN bs.obj.chunks[d].cells)
                                        \X (1 .. MaxBaseRecs) : d \in BaseDepths } :
                        h[3] <= Len(bs.obj.chunks[h[1]].cells[h[2]]) }
            celled(h) ==
                <<bs.obj.chunks[h[1]].id + (h[2] \div TickSpan) - Structure.baseIndexBegin, 0>>
                    \o bs.obj.chunks[h[1]].cells[h[2]][h[3]]
        IN  /\ Len(recs) = Cardinality(held)
            /\ \A h \in held :
                  Cardinality({i \in DOMAIN recs : recs[i] = celled(h)})
                      = Cardinality({g \in held : celled(g) = celled(h)})
            /\ \A i \in DOMAIN recs : Len(recs[i]) = 2 + PointSize(meta.format.schema)
            /\ Unpack(meta.format, bs'.blob).typeByte = 0
            /\ puts' = << [id |-> Structure.baseIndexBegin,
                           postfix |-> meta.subset,
                           bytes |-> bs'.blob] >>]_vars

\* The BaseChunk of a subset build was saved with three records, at two
\* depths.
C11_Witness ==
    /\ bs.pc = "saved"
    /\ bs.tampered = {}
    /\ meta.subset # 0
    /\ bs.kept[1].cells # EmptyCells
    /\ bs.kept[2].cells # EmptyCells
    /\ Len(CelledIn(meta.format, bs.blob)) = MaxBaseRecs
    /\ Len(puts) = 1

\* C12: a BaseChunk never has m_data set: save issues one put, its own, and
\* the destruction of the BaseChunk issues none.
C12_BaseNeverPutsByDestructor ==
    [][/\ BsSave => (Len(puts') = 1 /\ ~bs'.obj.data.set)
       /\ BsDestroy => (~bs.obj.data.set /\ puts' = <<>>)]_vars

\* A BaseChunk holding records was saved and then destroyed.
C12_Witness ==
    /\ bs.pc = "saved"
    /\ bs.obj = NoBase
    /\ bs.kept[1].cells # EmptyCells
    /\ puts = <<>>
    /\ chunkCount = 0

-----------------------------------------------------------------------------
(* The claims on the merge of BaseChunks.                                  *)

\* The write buffer of depth d as a merge finds it: m_writes[d], which
\* makeWritable fills with the chunk of m_chunks on the first merge.
WriteBefore(d) == IF mg.writable THEN mg.writes[d] ELSE <<mg.chunks[d]>>

\* The last chunk of the write buffer of depth d ends where the chunk of
\* subset s begins.
Adjacent(d, s) ==
    LET write == WriteBefore(d)
        last == write[Len(write)]
    IN  write # <<>> => last.id + last.maxPoints = BaseOf(s).chunks[d].id

\* C13: BaseChunk::merge(other) fails with "Merges must be performed
\* consecutively" whenever at some base depth the write buffer is not empty
\* and its last chunk's endId is not the id of other's chunk at that depth,
\* and passes the adjacency check when every base depth has endId = id.
C13_MergeRequiresAdjacency ==
    [][\A s \in MergeSubsets, full \in BOOLEAN :
          MgMerge(s, full) =>
              IF \E d \in BaseDepths : ~Adjacent(d, s)
              THEN mg'.pc = "failed" /\ mg'.err = "consecutive"
              ELSE mg'.err # "consecutive"]_vars

\* A merge was refused after an adjacent one had extended the write buffers.
C13_Witness ==
    /\ mg.pc = "failed"
    /\ mg.err = "consecutive"
    /\ Len(mg.merged) = 2
    /\ \A d \in BaseDepths : Len(mg.writes[d]) = 2

\* C14: with a bump depth, when at a depth d >= bumpDepth the span of the
\* write buffer reaches basePointsPerChunk, the merge promotes the
\* accumulated tubes into a cold ContiguousChunk, returns its id when it is
\* not empty and clears the write buffer of that depth.
C14_BumpedSpanIsPromoted ==
    [][\A s \in MergeSubsets, full \in BOOLEAN :
          (MgMerge(s, full) /\ \A d \in BaseDepths : Adjacent(d, s)) =>
              \A d \in BaseDepths :
                  LET write == WriteBefore(d)
                      adding == LoadedBase(s, full).chunks[d]
                      span == adding.id + adding.maxPoints - write[1].id
                      held == adding.cells # EmptyCells
                                \/ \E i \in DOMAIN write : write[i].cells # EmptyCells
                  IN  (mg.bump # 0 /\ d >= mg.bump
                         /\ span = Structure.basePointsPerChunk)
                        => /\ mg'.err = "none"
                           /\ mg'.writes[d] = <<>>
                           /\ held => write[1].id \in mg'.ids]_vars

-----------------------------------------------------------------------------
(* The claims on Format.                                                   *)

\* C16: a Format is accepted exactly when no tail field is repeated and,
\* with compress on, numPoints is in the tail; every other configuration is
\* refused.
C16_FormatAcceptance ==
    fm.pc # "start" =>
        (fm.pc # "refused"
            <=> /\ \A i, j \in DOMAIN fm.tail : fm.tail[i] = fm.tail[j] => i = j
                /\ fm.compress => "numPoints" \in {fm.tail[i] : i \in DOMAIN fm.tail})

\* A Format with compress on and a tail without numPoints was refused.
C16_Witness ==
    /\ fm.pc = "refused"
    /\ fm.compress
    /\ fm.tail = <<"chunkType">>

\* The words of the tail of a packed blob, field by field in the configured
\* order.
TailWordsAt(k) ==
    IF fm.tail[k] = "numPoints" THEN <<Len(fm.stack), 0>>
    ELSE <<IF fm.type = "Contiguous" THEN 0 ELSE 1>>

\* C17: with compression off, pack returns the point records of the stack in
\* stack order, then the tail in the configured tailFields order, numPoints
\* being the size of the stack and chunkType the argument; the stack is
\* empty afterwards.
C17_RawPackLayout ==
    (fm.pc = "packed" /\ ~fm.compress) =>
        LET size == PointSize(NativeSchema)
            n == Len(fm.stack)
            tailStart[k \in 1 .. (Len(fm.tail) + 1)] ==
                IF k = 1 THEN n * size
                ELSE tailStart[k - 1] + Len(TailWordsAt(k - 1))
        IN  /\ Len(fm.packed) = tailStart[Len(fm.tail) + 1]
            /\ \A i \in 1 .. n, j \in 1 .. size :
                  fm.packed[(i - 1) * size + j] = fm.stack[i][j]
            /\ \A k \in DOMAIN fm.tail :
                  \A j \in DOMAIN TailWordsAt(k) :
                      fm.packed[tailStart[k] + j] = TailWordsAt(k)[j]
            /\ fm.left = <<>>

\* Two different records were packed raw under a tail of two fields.
C17_Witness ==
    /\ fm.pc = "packed"
    /\ ~fm.compress
    /\ Len(fm.stack) = 2
    /\ fm.stack[1] # fm.stack[2]
    /\ fm.tail = <<"chunkType", "numPoints">>
    /\ fm.type = "Sparse"

\* C18: with compression on and a delta, the integers pack feeds to the
\* compressor for X, Y and Z of every record are round((v - offset) / scale),
\* so that i * scale + offset is within scale / 2 of v.
C18_QuantizedWithinHalfScale ==
    (fm.pc = "packed" /\ fm.compress /\ fm.delta # NoDelta) =>
        LET size == PointSize(PackingSchema(NativeSchema))
            fed == Tail(fm.packed)
        IN  \A i \in DOMAIN fm.stack, c \in 1 .. 3 :
                LET v == fm.stack[i][2 * c]
                    q == fed[(i - 1) * size + c]
                    back == q * fm.delta.scale + fm.delta.offset
                IN  /\ 2 * (back - v) <= fm.delta.scale
                    /\ 2 * (v - back) <= fm.delta.scale

\* C19: the put of a cold data chunk carries no subset postfix, whatever the
\* build; the blobs 'entwine' and 'entwine-manifest' and the blob of the
\* BaseChunk carry the postfix of the subset; without a subset, and after
\* makeWhole(), no put carries a postfix.
C19_SubsetPostfix ==
    /\ \A i \in DOMAIN md.saved :
          /\ md.saved[i].kind = "cold" => md.saved[i].postfix = 0
          /\ md.saved[i].kind \in {"entwine", "entwine-manifest", "base"}
                => md.saved[i].postfix = md.subset
          /\ (md.subset = 0 \/ md.whole) => md.saved[i].postfix = 0
    /\ md.whole => md.subset = 0
    /\ Postfix(md, TRUE) = 0

\* A subset build saved its metadata and its manifest.
C19_Witness ==
    /\ md.subset = 2
    /\ Len(md.saved) = 2
    /\ md.saved[1].kind = "entwine"
    /\ md.saved[2].kind = "entwine-manifest"

\* C20: toJson writes the seven required keys always, and each optional key
\* exactly when its component is present: reprojection, subset,
\* transformation and formats.cesium when set, scale and offset together when
\* there is a delta, errors when the error list is not empty.
C20_ToJsonKeys ==
    [][MdToJson =>
          LET keys == md'.json.keys
          IN  /\ RequiredKeys \subseteq keys
              /\ "reprojection" \in keys <=> md.reprojection
              /\ "subset" \in keys <=> md.subset # 0
              /\ "transformation" \in keys <=> md.transformation.set
              /\ "formats.cesium" \in keys <=> md.cesium
              /\ "scale" \in keys <=> md.delta
              /\ "offset" \in keys <=> md.delta
              /\ "errors" \in keys <=> Len(md.errors) # 0]_vars


-----------------------------------------------------------------------------
(* The claims on the executable.                                           *)

\* The invocation failed: no kernel was named, the name is none the
\* executable knows, or the kernel raised an error.
FailedInvocation ==
    \/ kn.argv = <<>>
    \/ Head(kn.argv) \notin KernelWords \ {KBogus}
    \/ kn.outcome \in {"runtime_error", "invalid_argument", "abort"}

\* C21: the process exits with 1 for every failed invocation (no kernel, an
\* unknown kernel name, any error raised while the kernel runs, a malformed
\* numeric option value included) and with 0 only when the invocation did not
\* fail.
C21_ExitCode ==
    kn.pc = "exited" =>
        /\ FailedInvocation => kn.exit = 1
        /\ kn.exit = 0 => ~FailedInvocation

\* C22: each of the names build, merge, link, infer and convert given as the
\* first argument dispatches to the kernel of that name, and no other name
\* dispatches to a kernel.
C22_Dispatch ==
    [][(KnMain /\ kn.argv # <<>>) =>
          LET name == Head(kn.argv)
          IN  /\ name = KBuild => kn'.kernel = "build"
              /\ name = KMerge => kn'.kernel = "merge"
              /\ name = KLink => kn'.kernel = "link"
              /\ name = KInfer => kn'.kernel = "infer"
              /\ name = KConvert => kn'.kernel = "convert"
              /\ name \notin {KBuild, KMerge, KLink, KInfer, KConvert}
                    => kn'.kernel = "none"]_vars

\* The option letter of the argument the loop of Kernel::build stands at,
\* "none" when the argument is no two-character option.
OptionAt(k) ==
    LET arg == ArgAt(k, k.a)
    IN  IF Len(arg) = 2 /\ arg[1] = "-" THEN arg[2] ELSE "none"

\* No argument after the one the loop stands at holds a ']'.
NoBracketAfter(k) ==
    \A j \in (k.a + 2) .. Len(k.args) : \A i \in DOMAIN k.args[j] : k.args[j][i] # "]"

\* C23: the option parsing of the build kernel terminates, and it either
\* consumes every argument or raises an error before a builder is created:
\* every pass of the loop advances or ends the run, a builder is created only with every
\* argument consumed, and an unrecognized argument, a value-taking option that
\* is the last argument and a -b that no ']' follows raise an error.
C23_OptionParsing ==
    [][/\ KnBuildOption =>
            /\ kn'.a > kn.a \/ kn'.pc = "exited"
            /\ ~kn'.builder
            /\ OptionAt(kn) \notin ValueOptions \cup FlagOptions \cup {"b", "s", "r"}
                  => kn'.outcome = "runtime_error"
            /\ (OptionAt(kn) \in ValueOptions \cup {"s", "r"} /\ kn.a + 1 = Len(kn.args))
                  => kn'.outcome = "runtime_error"
            /\ (OptionAt(kn) = "b" /\ NoBracketAfter(kn))
                  => kn'.outcome = "runtime_error"
       /\ kn'.builder => (kn'.a = Len(kn'.args) /\ kn.pc = "parse")]_vars

\* The build kernel consumed three arguments and created its builder, and
\* another run refused a trailing -b.
C23_Witness ==
    /\ kn.kernel = "build"
    /\ kn.builder
    /\ Len(kn.args) = 3
    /\ kn.args[1] = Opt("b")
    /\ kn.subset = [id |-> 0, of |-> 0]

\* C27: `-s v` followed by nothing or by an argument that starts with '-'
\* sets the scale to (v, v, v) and consumes one value; `-s a b`, b not
\* starting with '-', sets the subset id to a and the subset total to b and
\* consumes two values; neither touches the other setting.
C27_ScaleOrSubset ==
    [][(KnBuildOption /\ OptionAt(kn) = "s" /\ kn.a + 1 < Len(kn.args)
            /\ StoD(ArgAt(kn, kn.a + 1)).ok) =>
          LET v == StoD(ArgAt(kn, kn.a + 1)).val
          IN  IF kn.a + 2 >= Len(kn.args)
                 \/ (ArgAt(kn, kn.a + 2) # <<>> /\ ArgAt(kn, kn.a + 2)[1] = "-")
              THEN /\ kn'.scale = <<v, v, v>>
                   /\ kn'.a = kn.a + 2
                   /\ kn'.subset = kn.subset
              ELSE StoUL(ArgAt(kn, kn.a + 2)).ok =>
                      /\ kn'.subset = [id |-> v, of |-> StoUL(ArgAt(kn, kn.a + 2)).val]
                      /\ kn'.a = kn.a + 3
                      /\ kn'.scale = kn.scale]_vars


\* The arguments that are subset paths: those that are neither a -c option
\* nor the value that follows it.
RECURSIVE SubsetPaths(_)
SubsetPaths(rest) ==
    IF rest = <<>> THEN 0
    ELSE IF Head(rest) = Opt("c")
         THEN IF Tail(rest) = <<>> THEN 0 ELSE SubsetPaths(Tail(Tail(rest)))
         ELSE 1 + SubsetPaths(Tail(rest))

\* C24: Kernel::link refuses with an error, before anything is linked, every
\* call whose number of subset paths (the arguments but the output path and
\* the -c option with its value) is not 4, 16 or 64, and every call with
\* fewer than 5 arguments.
C24_LinkRejects ==
    (/\ kn.pc = "returned"
     /\ kn.kernel = "link"
     /\ Len(kn.args) < 5 \/ SubsetPaths(Tail(kn.args)) \notin {4, 16, 64})
        => (kn.outcome = "runtime_error" /\ ~kn.builder)

\* A call with an output path and nine subset paths was refused.
C24_Witness ==
    /\ kn.pc = "returned"
    /\ kn.kernel = "link"
    /\ Len(kn.args) = 10
    /\ SubsetPaths(Tail(kn.args)) = 9
    /\ kn.outcome = "runtime_error"
    /\ ~kn.builder


\* The words a record holds for the dimensions other than X, Y and Z, in the
\* order of the schema.
RECURSIVE AttributeWords(_, _)
AttributeWords(dims, rec) ==
    IF dims = <<>> THEN <<>>
    ELSE (IF Head(dims).name \in {"X", "Y", "Z"}
          THEN <<>>
          ELSE SubSeq(rec, 1, Head(dims).words))
            \o AttributeWords(Tail(dims), SubSeq(rec, Head(dims).words + 1, Len(rec)))

\* C25: with compression and a delta, for every schema, what pack feeds to the
\* compressor behind the three quantized integers of a record is that
\* record's attributes other than X, Y and Z, unchanged and in schema order,
\* as long as the packing schema less its three 32-bit coordinates.
C25_AttributesFedUnchanged ==
    (fm.pc = "packed" /\ fm.compress /\ fm.delta # NoDelta) =>
        LET size == PointSize(PackingSchema(fm.schema))
            fed == Tail(fm.packed)
        IN  /\ Len(fed) = Len(fm.stack) * size + 3
            /\ \A i \in DOMAIN fm.stack :
                  SubSeq(fed, (i - 1) * size + 4, i * size)
                      = AttributeWords(fm.schema, fm.stack[i])


\* C26: after any sequence of successful merge calls, the write buffer of
\* every base depth is a run of id-adjacent chunks: the id of each chunk is
\* the id of the chunk before it plus that chunk's maxPoints, so the buffer
\* covers one id range without a gap or an overlap.
C26_WriteBufferIsAdjacent ==
    mg.pc = "merging" =>
        \A d \in BaseDepths :
            \A i \in 2 .. Len(mg.writes[d]) :
                mg.writes[d][i].id
                    = mg.writes[d][i - 1].id + mg.writes[d][i - 1].maxPoints

\* Three successful merges: every write buffer holds four chunks, this
\* BaseChunk's own and those of the three subsets that follow it.
C26_Witness ==
    /\ mg.pc = "merging"
    /\ mg.merged = <<2, 3, 4>>
    /\ \A d \in BaseDepths : Len(mg.writes[d]) = 4

\* C28: a merge(other) that fails with the adjacency error leaves both
\* BaseChunks as they were before the call: no write buffer of this chunk has
\* gained a chunk, no chunk of this one was moved, and no per-depth chunk of
\* other has been moved out.
C28_FailedMergeChangesNothing ==
    [][\A s \in MergeSubsets, full \in BOOLEAN :
          (MgMerge(s, full) /\ mg'.err = "consecutive") =>
              /\ mg'.writes = mg.writes
              /\ mg'.chunks = mg.chunks
              /\ mg'.other.chunks = LoadedBase(s, full).chunks]_vars


\* C30: a cold chunk (depth > 0) that Chunk::create made empty, that was
\* destroyed and is reloaded from its own blob comes back as the variant it
\* was: the chunk type the destructor's collect wrote into the tail makes
\* Chunk::create with data choose the variant the id < mappedIndexBegin rule
\* chose.
C30_ReloadedVariantIsOriginal ==
    (/\ ld.pc = "loaded"
     /\ ~ld.tampered
     /\ ld.depth > 0
     /\ ld.made \in {"Sparse", "Contiguous"})
        => /\ ld.result.status = "chunk"
           /\ ld.result.chunk.variant = ld.made
           /\ ld.made = CreateVariant(ld.depth, ld.id)

\* A SparseChunk and its records came back as a SparseChunk.
C30_Witness ==
    /\ ld.pc = "loaded"
    /\ ~ld.tampered
    /\ ld.depth > 0
    /\ ld.id >= Structure.mappedIndexBegin
    /\ ld.made = "Sparse"
    /\ ld.orig # EmptyCells
    /\ ld.result.status = "chunk"
    /\ ld.result.chunk.variant = "Sparse"


\* C29: under every interleaving of chunk constructions and destructions on
\* different threads, a BaseChunk construction among live cold chunks
\* included, the chunk counter never wraps below zero: Chunk::count() is at
\* most the number of chunk objects ever constructed.
C29_CounterNeverWraps ==
    chunkCount <= constructed

====
